---------------------------- MODULE Spec2Model ----------------------------
(***************************************************************************)
(* The particle simulation engine of Three-VFX on its Host-Sequential      *)
(* (CPU fallback) backend: VFXParticleSystem (core-vfx/particle-system.ts) *)
(* with cpuInit, cpuSpawn and cpuUpdate (core-vfx/webgl-fallback).         *)
(*                                                                         *)
(* Numbers.  The code computes in IEEE floats; the model computes in       *)
(* fixed point with Scale units per 1.0, so 0.5 is 500 and the thresholds  *)
(* 0.001 and 0.01 of the code are 1 and 10.  A product is rescaled and     *)
(* truncated toward zero, which stands for the rounding of the float       *)
(* product.  Counts and indices are plain integers.                        *)
(***************************************************************************)
EXTENDS Integers, Sequences, FiniteSets, TLC

\* ------------------------------------------------------------------ bounds
\* normalizedProps.maxParticles, the capacity C of the store
MaxParticles == 3
\* number of operations applied to one engine
MaxSteps == 4

\* spawn counts 0 .. MaxCount: up to one more than the capacity
MaxCount == MaxParticles + 1
Idx == 0 .. (MaxParticles - 1)

\* ------------------------------------------------------------- fixed point
Scale == 10 * 10 * 10
Fp(n, d) == (n * Scale) \div d
One == Scale
Abs(a) == IF a < 0 THEN -a ELSE a
Max2(a, b) == IF a >= b THEN a ELSE b
Min2(a, b) == IF a <= b THEN a ELSE b
\* a * b, truncated toward zero
Mul(a, b) == LET p == a * b IN IF p >= 0 THEN p \div Scale ELSE -((-p) \div Scale)
\* the magnitude that stands for a value that is not finite: a division by
\* zero gives Infinity or -Infinity in the code, and NaN for 0 / 0, which the
\* model does not tell apart from Infinity.  It lies above every magnitude the
\* model stores, of which the dead sentinel 1000 is the largest.
Infinity == (Scale + 1) * Scale
IsFinite(a) == Abs(a) < Infinity
\* a / b, truncated toward zero; a division by zero gives the magnitude
\* Infinity
Div(a, b) ==
  LET p == a * Scale
      q == IF b = 0 THEN Infinity ELSE Abs(p) \div Abs(b)
  IN IF (p >= 0) = (b > 0) THEN q ELSE -q
\* Math.floor of a fixed-point number, as a plain integer
Floor(a) == a \div Scale
RECURSIVE SqrtSearch(_, _, _)
SqrtSearch(n, lo, hi) ==
  IF lo >= hi THEN lo
  ELSE LET mid == (lo + hi + 1) \div 2
       IN IF mid * mid <= n THEN SqrtSearch(n, mid, hi) ELSE SqrtSearch(n, lo, mid - 1)
\* Math.sqrt(a*a + b*b + c*c) of three fixed-point numbers
Length3(a, b, c) == SqrtSearch(a * a + b * b + c * c, 0, Abs(a) + Abs(b) + Abs(c))

\* the dead sentinel y = -1000 (cpu-init.ts line 13, cpu-update.ts lines 227, 276)
DeadY == (-1000) * Scale
Zero3 == <<0, 0, 0>>
White3 == <<One, One, One>>
\* an optional storage array that was not created (null in the code)
NullArray == <<>>

\* hash(n) = fract(sin(n) * 43758.5453123), a value in [0, 1).  The sine is
\* replaced by a multiplicative hash with the same range and the same
\* determinism: equal arguments give equal values.
Hash(n) == (n * 618) % Scale
Lerp(a, b, t) == a + Mul(b - a, t)


\* --------------------------------------------------------- curve sampler
\* data[k] of the Float32Array behind a curve texture (0-based in the code)
At(data, k) == data[k + 1]
\* mutant: the progress wraps around instead of being clamped
WrapProgress(progress) == progress % One
\* Math.max(0, Math.min(1, progress))
ClampProgress(progress) == Max2(0, Min2(One, progress))
\* the two texels read for a progress and the weight of the second
TexelOf(width, progress) ==
  LET t == ClampProgress(progress)
      texelPos == t * (width - 1)
      idx0 == Floor(texelPos)
      idx1 == Min2(idx0 + 1, width - 1)
      frac == texelPos - idx0 * Scale
  IN [idx0 |-> idx0, idx1 |-> idx1, frac |-> frac]
\* sampleCurve(curveTexture, progress): the four channels r, g, b, a
sampleCurve(tex, progress) ==
  LET width == tex.width
      t == ClampProgress(progress)
      texelPos == t * (width - 1)
      idx0 == Floor(texelPos)
      idx1 == Min2(idx0 + 1, width - 1)
      frac == texelPos - idx0 * Scale
      base0 == idx0 * 4
      base1 == idx1 * 4
      Chan(c) == Mul(At(tex.data, base0 + c), One - frac) + Mul(At(tex.data, base1 + c), frac)
  IN [r |-> Chan(0), g |-> Chan(1), b |-> Chan(2), a |-> Chan(3)]

\* ------------------------------------------------------------ noise field
\* a triangle wave of period 4.0 with values in [-1, 1]
Wave(t) ==
  LET m == t % (4 * Scale)
  IN IF m <= 2 * Scale THEN m - One ELSE 3 * Scale - m
\* curlNoise(x, y, z, eps): a deterministic divergence-free vector field (no
\* component depends on its own coordinate), a pure function of its inputs
curlNoise(x, y, z, eps) ==
  <<Wave(y) - Wave(z), Wave(z) - Wave(x), Wave(x) - Wave(y)>>

\* ---------------------------------------------------------------- cpuInit
\* mutant: the loop of cpuInit stops one slot early
cpuInitSlotsShort(maxParticles) == 0 .. (maxParticles - 2)
\* cpuInit: every slot 0 .. maxParticles-1 is set to the dead state
cpuInitSlots(maxParticles) == 0 .. (maxParticles - 1)
cpuInit(cpu, maxParticles) ==
  LET S == cpuInitSlots(maxParticles)
      Reset(arr, v) == [i \in DOMAIN arr |-> IF i \in S THEN v ELSE arr[i]]
  IN [positions |-> Reset(cpu.positions, <<0, DeadY, 0>>),
      velocities |-> Reset(cpu.velocities, Zero3),
      lifetimes |-> Reset(cpu.lifetimes, 0),
      fadeRates |-> Reset(cpu.fadeRates, 0),
      particleSizes |-> Reset(cpu.particleSizes, 0),
      particleRotations |->
        IF cpu.particleRotations # NullArray
        THEN Reset(cpu.particleRotations, Zero3) ELSE NullArray,
      particleColorStarts |->
        IF cpu.particleColorStarts # NullArray
        THEN Reset(cpu.particleColorStarts, White3) ELSE NullArray,
      particleColorEnds |->
        IF cpu.particleColorEnds # NullArray
        THEN Reset(cpu.particleColorEnds, White3) ELSE NullArray]

\* -------------------------------------------------------------- cpuUpdate
\* mutant: only a negative lifetime counts as dead
IsDeadStrict(lifetime) == lifetime < 0
\* the test that skips a slot: lifetime <= 0
IsDead(lifetime) == lifetime <= 0

\* velocity control: the velocity curve's B channel, or friction with easing
SpeedScale(u, tex, progress) ==
  IF u.velocityCurveEnabled > Fp(1, 2)
  THEN sampleCurve(tex, progress).b
  ELSE LET easedProgress ==
             IF u.frictionEasingType < Fp(1, 2) THEN progress
             ELSE IF u.frictionEasingType < Fp(3, 2) THEN Mul(progress, progress)
             ELSE IF u.frictionEasingType < Fp(5, 2)
                  THEN One - Mul(One - progress, One - progress)
             ELSE IF progress < Fp(1, 2)
                  THEN Mul(2 * progress, progress)
                  ELSE One - Mul(2 * One - 2 * progress, 2 * One - 2 * progress) \div 2
           currentIntensity ==
             u.frictionIntensityStart
               + Mul(u.frictionIntensityEnd - u.frictionIntensityStart, easedProgress)
       IN One - Mul(currentIntensity, Fp(9, 10))

\* gravity with the size-based multiplier
GravityStep(u, v, size, dt) ==
  LET gravMult == One + Mul(size, u.sizeBasedGravity)
  IN <<v[1] + Mul(Mul(u.gravity[1], dt), gravMult),
       v[2] + Mul(Mul(u.gravity[2], dt), gravMult),
       v[3] + Mul(Mul(u.gravity[3], dt), gravMult)>>

\* turbulence: curl noise added to the velocity when the intensity is above 0.001
TurbulenceStep(u, features, p, v, dt) ==
  LET hasTurbulence == features.turbulence
      turbIntensity == IF hasTurbulence THEN u.turbulenceIntensity ELSE 0
      turbFreq == IF hasTurbulence THEN u.turbulenceFrequency ELSE 0
      turbTime == IF hasTurbulence THEN u.turbulenceTime ELSE 0
  IN IF hasTurbulence /\ turbIntensity > Fp(1, 1000)
     THEN LET nx == Mul(p[1], turbFreq) + turbTime
              ny == Mul(p[2], turbFreq) + Mul(turbTime, Fp(7, 10))
              nz == Mul(p[3], turbFreq) + Mul(turbTime, Fp(13, 10))
              c == curlNoise(nx, ny, nz, Fp(1, 100))
          IN <<v[1] + Mul(Mul(c[1], turbIntensity), dt),
               v[2] + Mul(Mul(c[2], turbIntensity), dt),
               v[3] + Mul(Mul(c[3], turbIntensity), dt)>>
     ELSE v

\* the attractors read before the loop: the first min(attractorCount, 4)
ReadAttractors(u, features) ==
  IF features.attractors
  THEN SubSeq(u.attractors, 1, Min2(u.attractorCount, 4))
  ELSE <<>>

\* mutant: the distance is divided by as it is
UnclampedDist(dist) == dist
\* safeDist = Math.max(dist, 0.01)
SafeDist(dist) == Max2(dist, Fp(1, 100))
\* tangentLen = Math.max(|tangent|, 0.001)
SafeTangentLen(len) == Max2(len, Fp(1, 1000))
\* mutant: a cross product with one sign turned in every component
SkewedCross(a, b, k) ==
  Mul(a[(k % 3) + 1], b[((k + 1) % 3) + 1]) + Mul(a[((k + 1) % 3) + 1], b[(k % 3) + 1])
\* component k (1 = x, 2 = y, 3 = z) of cross(a, b)
Cross(a, b, k) ==
  Mul(a[(k % 3) + 1], b[((k + 1) % 3) + 1]) - Mul(a[((k + 1) % 3) + 1], b[(k % 3) + 1])
\* cross(a, b)
Cross3(a, b) == <<Cross(a, b, 1), Cross(a, b, 2), Cross(a, b, 3)>>

\* the force of one attractor on a particle at p (zero when |strength| <= 0.001)
AttractorForce(att, p) ==
  IF Abs(att.strength) <= Fp(1, 1000) THEN Zero3
  ELSE
    LET toX == att.pos[1] - p[1]
        toY == att.pos[2] - p[2]
        toZ == att.pos[3] - p[3]
        dist == Length3(toX, toY, toZ)
        safeDist == SafeDist(dist)
        dirX == Div(toX, safeDist)
        dirY == Div(toY, safeDist)
        dirZ == Div(toZ, safeDist)
        falloff ==
          IF att.radius > Fp(1, 1000)
          THEN Max2(0, One - Div(dist, att.radius))
          ELSE Div(One, Mul(safeDist, safeDist) + One)
    IN IF att.type < Fp(1, 2)
       THEN <<Mul(Mul(dirX, att.strength), falloff),
              Mul(Mul(dirY, att.strength), falloff),
              Mul(Mul(dirZ, att.strength), falloff)>>
       ELSE
         LET tangentX == Cross(att.axis, <<toX, toY, toZ>>, 1)
             tangentY == Cross(att.axis, <<toX, toY, toZ>>, 2)
             tangentZ == Cross(att.axis, <<toX, toY, toZ>>, 3)
             tangentLen == SafeTangentLen(Length3(tangentX, tangentY, tangentZ))
         IN <<Mul(Mul(Div(tangentX, tangentLen), att.strength), falloff),
              Mul(Mul(Div(tangentY, tangentLen), att.strength), falloff),
              Mul(Mul(Div(tangentZ, tangentLen), att.strength), falloff)>>

\* what the attractor step divides by for one attractor and a particle at p:
\* nothing when the attractor is skipped, else the clamped distance, the
\* radius (linear falloff) or safeDist^2 + 1 (inverse-square falloff), and for
\* a vortex the clamped tangent length
AttractorDivisors(att, p) ==
  LET toX == att.pos[1] - p[1]
      toY == att.pos[2] - p[2]
      toZ == att.pos[3] - p[3]
      safeDist == SafeDist(Length3(toX, toY, toZ))
      tangent == Cross3(att.axis, <<toX, toY, toZ>>)
  IN [skipped |-> Abs(att.strength) <= Fp(1, 1000),
      safeDist |-> safeDist,
      linear |-> att.radius > Fp(1, 1000),
      falloffDivisor |->
        IF att.radius > Fp(1, 1000) THEN att.radius ELSE Mul(safeDist, safeDist) + One,
      vortex |-> ~(att.type < Fp(1, 2)),
      tangentLen |-> SafeTangentLen(Length3(tangent[1], tangent[2], tangent[3]))]

\* the attractor loop: every force is computed at the same position p
RECURSIVE AttractorStep(_, _, _, _)
AttractorStep(atts, p, v, dt) ==
  IF atts = <<>> THEN v
  ELSE LET f == AttractorForce(Head(atts), p)
       IN AttractorStep(Tail(atts), p,
            <<v[1] + Mul(f[1], dt), v[2] + Mul(f[2], dt), v[3] + Mul(f[3], dt)>>, dt)

\* mutant: the position is integrated without the speed scale
IntegrateStepNoScale(p, v, dt, speedScale) ==
  <<p[1] + Mul(v[1], dt), p[2] + Mul(v[2], dt), p[3] + Mul(v[3], dt)>>
\* position integration with the speed scale
IntegrateStep(p, v, dt, speedScale) ==
  <<p[1] + Mul(Mul(v[1], dt), speedScale),
    p[2] + Mul(Mul(v[2], dt), speedScale),
    p[3] + Mul(Mul(v[3], dt), speedScale)>>

\* the collision test, on the position after integration
Collides(u, features, p) ==
  LET hasCollision == features.collision
      collisionEnabled == IF hasCollision THEN u.collisionEnabled > Fp(1, 2) ELSE FALSE
      collisionPlaneY == IF hasCollision THEN u.collisionPlaneY ELSE 0
  IN collisionEnabled /\ p[2] < collisionPlaneY
CollisionDie(u, features) ==
  IF features.collision THEN u.collisionDie > Fp(1, 2) ELSE FALSE

\* mutant: the die branch forgets to pin y to the sentinel
DieOnCollisionKeepY(p, v, rot) ==
  [pos |-> p, vel |-> v, life |-> 0, rot |-> rot]
\* mutant: the die branch resets the velocity instead of storing this tick's
DieOnCollisionResetVelocity(p, v, rot) ==
  [pos |-> <<p[1], DeadY, p[3]>>, vel |-> Zero3, life |-> 0, rot |-> rot]
\* what the die branch stores: lifetime 0, y pinned to the sentinel, the
\* velocity and the x and z position of this tick; the rotation is not touched
DieOnCollision(p, v, rot) ==
  [pos |-> <<p[1], DeadY, p[3]>>, vel |-> v, life |-> 0, rot |-> rot]

\* mutant: the bounce reflects the velocity but leaves y where integration put it
BouncePositionBelowPlane(u, p) == p
\* the bounce branch: y clamped to the plane, velocity reflected and damped
BouncePosition(u, p) == <<p[1], u.collisionPlaneY, p[3]>>
\* mutant: velocity.y is scaled by the bounce without being reflected
BounceVelocityNoAbs(u, v) ==
  <<Mul(v[1], u.collisionFriction),
    Mul(v[2], u.collisionBounce),
    Mul(v[3], u.collisionFriction)>>
BounceVelocity(u, v) ==
  <<Mul(v[1], u.collisionFriction),
    Mul(Abs(v[2]), u.collisionBounce),
    Mul(v[3], u.collisionFriction)>>

\* rotation: a per-index speed between min and max, times the curve's A channel
RotationStep(u, tex, rot, i, progress, dt) ==
  LET rotSpeedX == Lerp(u.rotationSpeedMinX, u.rotationSpeedMaxX, Hash(i + 8888))
      rotSpeedY == Lerp(u.rotationSpeedMinY, u.rotationSpeedMaxY, Hash(i + 9999))
      rotSpeedZ == Lerp(u.rotationSpeedMinZ, u.rotationSpeedMaxZ, Hash(i + 10101))
      rotSpeedMult ==
        IF u.rotationSpeedCurveEnabled > Fp(1, 2)
        THEN sampleCurve(tex, progress).a ELSE One
  IN <<rot[1] + Mul(Mul(rotSpeedX, dt), rotSpeedMult),
       rot[2] + Mul(Mul(rotSpeedY, dt), rotSpeedMult),
       rot[3] + Mul(Mul(rotSpeedZ, dt), rotSpeedMult)>>

\* mutant: the decay is left out, the lifetime is stored as it was
NewLifetimeFrozen(lifetime, fadeRate, dt) == lifetime
\* mutant: the fade rate is applied per tick, not per second
NewLifetimeNoDt(lifetime, fadeRate, dt) == lifetime - fadeRate
\* lifetime decay: fadeRate is per second
NewLifetime(lifetime, fadeRate, dt) == lifetime - Mul(fadeRate, dt)
\* mutant: the new lifetime is stored without the test for death
DecayStepNoClamp(p, v, rot, newLifetime) ==
  [pos |-> p, vel |-> v, life |-> newLifetime, rot |-> rot]
\* what the decay step stores after the write-back of position and velocity
DecayStep(p, v, rot, newLifetime) ==
  IF newLifetime <= 0
  THEN [pos |-> <<p[1], DeadY, p[3]>>, vel |-> v, life |-> 0, rot |-> rot]
  ELSE [pos |-> p, vel |-> v, life |-> newLifetime, rot |-> rot]

\* the velocity of slot i after gravity, turbulence and the attractors
VelocityAfterForces(cpu, u, features, i) ==
  LET dt == u.deltaTime
      p0 == cpu.positions[i]
      v1 == GravityStep(u, cpu.velocities[i], cpu.particleSizes[i], dt)
      v2 == TurbulenceStep(u, features, p0, v1, dt)
  IN AttractorStep(ReadAttractors(u, features), p0, v2, dt)

\* mutant: the position is integrated before the forces are applied, with
\* the velocity as it was stored
PositionIntegratedBeforeForces(cpu, u, tex, features, i) ==
  IntegrateStep(cpu.positions[i], cpu.velocities[i], u.deltaTime,
                SpeedScale(u, tex, One - cpu.lifetimes[i]))
\* the position of slot i after the integration step
PositionAfterIntegration(cpu, u, tex, features, i) ==
  LET progress == One - cpu.lifetimes[i]
      speedScale == SpeedScale(u, tex, progress)
  IN IntegrateStep(cpu.positions[i], VelocityAfterForces(cpu, u, features, i),
                   u.deltaTime, speedScale)

\* one iteration of the loop of cpuUpdate, for the slot i
UpdateParticle(cpu, u, tex, features, i) ==
  LET dt == u.deltaTime
      lifetime == cpu.lifetimes[i]
      hasRotation == features.rotation /\ cpu.particleRotations # NullArray
      rot0 == IF cpu.particleRotations # NullArray THEN cpu.particleRotations[i] ELSE Zero3
      progress == One - lifetime
      v3 == VelocityAfterForces(cpu, u, features, i)
      p1 == PositionAfterIntegration(cpu, u, tex, features, i)
      hit == Collides(u, features, p1)
      p2 == IF hit THEN BouncePosition(u, p1) ELSE p1
      v4 == IF hit THEN BounceVelocity(u, v3) ELSE v3
      rot1 == IF hasRotation THEN RotationStep(u, tex, rot0, i, progress, dt) ELSE rot0
  IN IF IsDead(lifetime)
     THEN [pos |-> cpu.positions[i], vel |-> cpu.velocities[i], life |-> lifetime,
           rot |-> rot0]
     ELSE IF hit /\ CollisionDie(u, features)
     THEN DieOnCollision(p1, v3, rot0)
     ELSE DecayStep(p2, v4, rot1, NewLifetime(lifetime, cpu.fadeRates[i], dt))

\* cpuUpdate: the loop over 0 .. maxParticles-1
cpuUpdate(cpu, u, tex, maxParticles, features) ==
  LET S == 0 .. (maxParticles - 1)
      R == [i \in S |-> UpdateParticle(cpu, u, tex, features, i)]
  IN [cpu EXCEPT
        !.positions = [i \in DOMAIN @ |-> IF i \in S THEN R[i].pos ELSE @[i]],
        !.velocities = [i \in DOMAIN @ |-> IF i \in S THEN R[i].vel ELSE @[i]],
        !.lifetimes = [i \in DOMAIN @ |-> IF i \in S THEN R[i].life ELSE @[i]],
        !.particleRotations =
          IF @ = NullArray THEN @
          ELSE [i \in DOMAIN @ |-> IF i \in S THEN R[i].rot ELSE @[i]]]

\* ------------------------------------------------- the device update pass
\* an element of an optional array, zero when the array was not created
Opt(arr, i) == IF arr = NullArray THEN Zero3 ELSE arr[i]
\* a vector scaled by a number, and the sum of two vectors
Scaled(a, k) == <<Mul(a[1], k), Mul(a[2], k), Mul(a[3], k)>>
Plus(a, b) == <<a[1] + b[1], a[2] + b[2], a[3] + b[3]>>
\* the direction * strength * falloff of one attractor on a lane at position p
LaneAttractorForce(att, p) ==
  LET to == <<att.pos[1] - p[1], att.pos[2] - p[2], att.pos[3] - p[3]>>
      dist == Length3(to[1], to[2], to[3])
      clamped == Max2(dist, Fp(1, 100))
      falloff ==
        IF att.radius > Fp(1, 1000)
        THEN Max2(0, One - Div(dist, att.radius))
        ELSE Div(One, Mul(dist, dist) + One)
      tangent == Cross3(att.axis, to)
      tangentLen == Max2(Length3(tangent[1], tangent[2], tangent[3]), Fp(1, 1000))
      direction ==
        IF att.type < Fp(1, 2)
        THEN <<Div(to[1], clamped), Div(to[2], clamped), Div(to[3], clamped)>>
        ELSE <<Div(tangent[1], tangentLen), Div(tangent[2], tangentLen),
               Div(tangent[3], tangentLen)>>
  IN IF Abs(att.strength) <= Fp(1, 1000) THEN Zero3
     ELSE Scaled(Scaled(direction, att.strength), falloff)
RECURSIVE LaneAttractors(_, _, _, _, _)
LaneAttractors(atts, n, p, v, dt) ==
  IF n = 0 \/ atts = <<>> THEN v
  ELSE LaneAttractors(Tail(atts), n - 1, p,
                      Plus(v, Scaled(LaneAttractorForce(Head(atts), p), dt)), dt)
\* one lane of the update pass of the Device-Parallel backend, for the index
\* i: steps 1 to 8 in their fixed order; a dead lane is left as it is
UpdateLane(store, u, tex, features, i) ==
  LET dt == u.deltaTime
      lifetime == store.lifetimes[i]
      position == store.positions[i]
      rotation == Opt(store.particleRotations, i)
      \* 1. gravity
      afterGravity ==
        Plus(store.velocities[i],
             Scaled(Scaled(u.gravity, dt), One + Mul(store.particleSizes[i], u.sizeBasedGravity)))
      \* 2. speed scale
      progress == One - lifetime
      eased ==
        IF u.frictionEasingType < Fp(1, 2) THEN progress
        ELSE IF u.frictionEasingType < Fp(3, 2) THEN Mul(progress, progress)
        ELSE IF u.frictionEasingType < Fp(5, 2)
             THEN One - Mul(One - progress, One - progress)
        ELSE IF progress < Fp(1, 2) THEN Mul(2 * progress, progress)
        ELSE One - Mul(2 * One - 2 * progress, 2 * One - 2 * progress) \div 2
      speedScale ==
        IF u.velocityCurveEnabled > Fp(1, 2) THEN sampleCurve(tex, progress).b
        ELSE One - Mul(Lerp(u.frictionIntensityStart, u.frictionIntensityEnd, eased),
                       Fp(9, 10))
      \* 3. turbulence
      curl ==
        curlNoise(Mul(position[1], u.turbulenceFrequency) + u.turbulenceTime,
                  Mul(position[2], u.turbulenceFrequency) + Mul(u.turbulenceTime, Fp(7, 10)),
                  Mul(position[3], u.turbulenceFrequency) + Mul(u.turbulenceTime, Fp(13, 10)),
                  Fp(1, 100))
      afterTurbulence ==
        IF u.turbulenceIntensity < Fp(1, 1000) \/ ~features.turbulence THEN afterGravity
        ELSE Plus(afterGravity, Scaled(Scaled(curl, u.turbulenceIntensity), dt))
      \* 4. attractors
      afterAttractors ==
        IF features.attractors
        THEN LaneAttractors(u.attractors, Min2(u.attractorCount, 4), position,
                            afterTurbulence, dt)
        ELSE afterTurbulence
      \* 5. integration
      integrated == Plus(position, Scaled(Scaled(afterAttractors, dt), speedScale))
      \* 6. collision
      crossed ==
        features.collision /\ u.collisionEnabled > Fp(1, 2)
          /\ integrated[2] < u.collisionPlaneY
      bouncedPosition == <<integrated[1], u.collisionPlaneY, integrated[3]>>
      bouncedVelocity ==
        <<Mul(afterAttractors[1], u.collisionFriction),
          Mul(Abs(afterAttractors[2]), u.collisionBounce),
          Mul(afterAttractors[3], u.collisionFriction)>>
      \* 7. rotation
      rotated ==
        IF features.needsRotation /\ store.particleRotations # NullArray
        THEN LET mult ==
                   IF u.rotationSpeedCurveEnabled > Fp(1, 2)
                   THEN sampleCurve(tex, progress).a ELSE One
                 speed ==
                   <<Lerp(u.rotationSpeedMinX, u.rotationSpeedMaxX, Hash(i + 8888)),
                     Lerp(u.rotationSpeedMinY, u.rotationSpeedMaxY, Hash(i + 9999)),
                     Lerp(u.rotationSpeedMinZ, u.rotationSpeedMaxZ, Hash(i + 10101))>>
             IN Plus(rotation, Scaled(Scaled(speed, dt), mult))
        ELSE rotation
      \* 8. lifetime decay
      newLifetime == lifetime - Mul(store.fadeRates[i], dt)
      p == IF crossed THEN bouncedPosition ELSE integrated
      v == IF crossed THEN bouncedVelocity ELSE afterAttractors
  IN IF lifetime <= 0
     THEN [pos |-> position, vel |-> store.velocities[i], life |-> lifetime, rot |-> rotation]
     ELSE IF crossed /\ u.collisionDie > Fp(1, 2)
     THEN [pos |-> <<integrated[1], DeadY, integrated[3]>>, vel |-> afterAttractors,
           life |-> 0, rot |-> rotation]
     ELSE IF newLifetime <= 0
     THEN [pos |-> <<p[1], DeadY, p[3]>>, vel |-> v, life |-> 0, rot |-> rotated]
     ELSE [pos |-> p, vel |-> v, life |-> newLifetime, rot |-> rotated]

\* --------------------------------------------------------------- cpuSpawn
\* the index range [spawnIndexStart, spawnIndexEnd) handed to the spawn pass,
\* half-open and read with wrap-around
InSpawnRange(i, startIdx, endIdx) ==
  IF startIdx <= endIdx
  THEN i >= startIdx /\ i < endIdx
  ELSE i >= startIdx \/ i < endIdx

\* cpuSpawn: every slot of the range gets a fresh particle: lifetime 1, a fade
\* rate, a size, a start position around spawnPosition and a velocity
\* direction * speed, each sampled from its configured range with a value in
\* [0, 1) that depends on the seed and the index
cpuSpawn(cpu, u, maxParticles) ==
  LET S == {i \in 0 .. (maxParticles - 1) : InSpawnRange(i, u.spawnIndexStart, u.spawnIndexEnd)}
      Rand(i, k) == Hash(u.spawnSeed + i + k)
      Range3(lo, hi, i, k) ==
        <<Lerp(lo[1], hi[1], Rand(i, k)), Lerp(lo[2], hi[2], Rand(i, k + 1)),
          Lerp(lo[3], hi[3], Rand(i, k + 2))>>
      Pos(i) ==
        LET off == Range3(u.startPosMin, u.startPosMax, i, 10)
        IN <<u.spawnPosition[1] + off[1], u.spawnPosition[2] + off[2],
             u.spawnPosition[3] + off[3]>>
      Vel(i) ==
        LET dir == Range3(u.dirMin, u.dirMax, i, 20)
            speed == Lerp(u.speedMin, u.speedMax, Rand(i, 30))
        IN <<Mul(dir[1], speed), Mul(dir[2], speed), Mul(dir[3], speed)>>
      Write(arr, V(_)) == [i \in DOMAIN arr |-> IF i \in S THEN V(i) ELSE arr[i]]
      LifeOf(i) == One
      FadeOf(i) == Lerp(u.lifetimeMin, u.lifetimeMax, Rand(i, 40))
      SizeOf(i) == Lerp(u.sizeMin, u.sizeMax, Rand(i, 50))
      RotOf(i) == Range3(u.rotationMin, u.rotationMax, i, 60)
      ColorStartOf(i) == u.colorStart0
      ColorEndOf(i) == u.colorEnd0
  IN [positions |-> Write(cpu.positions, Pos),
      velocities |-> Write(cpu.velocities, Vel),
      lifetimes |-> Write(cpu.lifetimes, LifeOf),
      fadeRates |-> Write(cpu.fadeRates, FadeOf),
      particleSizes |-> Write(cpu.particleSizes, SizeOf),
      particleRotations |->
        IF cpu.particleRotations # NullArray
        THEN Write(cpu.particleRotations, RotOf) ELSE NullArray,
      particleColorStarts |->
        IF cpu.particleColorStarts # NullArray
        THEN Write(cpu.particleColorStarts, ColorStartOf) ELSE NullArray,
      particleColorEnds |->
        IF cpu.particleColorEnds # NullArray
        THEN Write(cpu.particleColorEnds, ColorEndOf) ELSE NullArray]

\* ---------------------------------------------------- engine construction
\* the uniforms the engine starts with when no option is given
BaseUniforms ==
  [deltaTime |-> 0,
   gravity |-> Zero3, sizeBasedGravity |-> 0,
   fadeSizeCurveEnabled |-> 0, fadeOpacityCurveEnabled |-> 0,
   velocityCurveEnabled |-> 0, rotationSpeedCurveEnabled |-> 0,
   frictionEasingType |-> 0, frictionIntensityStart |-> 0, frictionIntensityEnd |-> 0,
   turbulenceIntensity |-> 0, turbulenceFrequency |-> One, turbulenceTime |-> 0,
   attractorCount |-> 0, attractors |-> <<>>,
   collisionEnabled |-> 0, collisionPlaneY |-> 0, collisionBounce |-> Fp(3, 10),
   collisionFriction |-> Fp(8, 10), collisionDie |-> 0,
   rotationSpeedMinX |-> 0, rotationSpeedMaxX |-> 0,
   rotationSpeedMinY |-> 0, rotationSpeedMaxY |-> 0,
   rotationSpeedMinZ |-> 0, rotationSpeedMaxZ |-> 0,
   spawnPosition |-> Zero3, spawnIndexStart |-> 0, spawnIndexEnd |-> 0, spawnSeed |-> 0,
   startPosMin |-> Zero3, startPosMax |-> Zero3,
   dirMin |-> <<0, -One, 0>>, dirMax |-> <<0, -One, 0>>,
   speedMin |-> 4 * One, speedMax |-> 4 * One,
   lifetimeMin |-> One, lifetimeMax |-> One,
   sizeMin |-> One, sizeMax |-> One,
   rotationMin |-> Zero3, rotationMax |-> Zero3,
   colorStart0 |-> <<One, 0, 0>>, colorEnd0 |-> <<0, 0, One>>]

NoFeatures ==
  [turbulence |-> FALSE, attractors |-> FALSE, collision |-> FALSE,
   rotation |-> FALSE, needsRotation |-> FALSE,
   perParticleColor |-> FALSE, needsPerParticleColor |-> FALSE, trails |-> FALSE]

\* a baked curve texture of three texels (r, g, b, a each)
BakedCurve ==
  [width |-> 3,
   data |-> <<One, One, 2 * One, One,
              Fp(1, 2), One, One, Fp(1, 2),
              0, 0, Fp(1, 2), 2 * One>>]

\* free fall: gravity with the size-based multiplier, sampled fade rate and size
OptFall ==
  [u |-> [BaseUniforms EXCEPT !.gravity = <<0, -2 * One, 0>>, !.sizeBasedGravity = Fp(1, 2),
            !.lifetimeMin = Fp(1, 4), !.lifetimeMax = One,
            !.sizeMin = Fp(1, 2), !.sizeMax = Fp(3, 2),
            !.dirMin = <<-One, 0, 0>>, !.dirMax = <<One, One, 0>>],
   features |-> NoFeatures, tex |-> BakedCurve,
   autoStart |-> TRUE, delay |-> 0, emitCount |-> 1,
   position |-> <<0, One, 0>>, turbulenceSpeed |-> One]

\* collision with die set under gravity, start heights spread over two units,
\* rotation and per-particle colours stored
OptDie ==
  [u |-> [BaseUniforms EXCEPT !.collisionEnabled = One, !.collisionDie = One,
            !.gravity = <<0, -2 * One, 0>>,
            !.startPosMin = Zero3, !.startPosMax = <<0, 2 * One, 0>>,
            !.lifetimeMin = Fp(1, 2), !.lifetimeMax = Fp(1, 2),
            !.dirMin = <<One, -One, 0>>, !.dirMax = <<One, -One, 0>>,
            !.rotationSpeedMinX = One, !.rotationSpeedMaxX = 2 * One,
            !.rotationSpeedMinY = One, !.rotationSpeedMaxY = One],
   features |-> [NoFeatures EXCEPT !.collision = TRUE, !.rotation = TRUE,
                   !.needsRotation = TRUE, !.perParticleColor = TRUE,
                   !.needsPerParticleColor = TRUE],
   tex |-> BakedCurve,
   autoStart |-> FALSE, delay |-> One, emitCount |-> 2,
   position |-> <<0, One, 0>>, turbulenceSpeed |-> One]

\* collision with bounce 0.5 and friction 0.5, fade rate 1
OptBounce ==
  [u |-> [BaseUniforms EXCEPT !.collisionEnabled = One, !.collisionBounce = Fp(1, 2),
            !.collisionFriction = Fp(1, 2),
            !.dirMin = <<One, -One, 0>>, !.dirMax = <<One, -One, One>>,
            !.rotationSpeedMinZ = One, !.rotationSpeedMaxZ = One],
   features |-> [NoFeatures EXCEPT !.collision = TRUE, !.rotation = TRUE,
                   !.needsRotation = TRUE],
   tex |-> BakedCurve,
   autoStart |-> TRUE, delay |-> One, emitCount |-> 1,
   position |-> <<0, One, 0>>, turbulenceSpeed |-> One]

\* turbulence, a point and a vortex attractor, friction with easeInOut
OptForces ==
  [u |-> [BaseUniforms EXCEPT !.turbulenceIntensity = One, !.turbulenceFrequency = Fp(1, 2),
            !.frictionEasingType = 3 * One, !.frictionIntensityStart = 0,
            !.frictionIntensityEnd = One,
            !.lifetimeMin = Fp(1, 2), !.lifetimeMax = Fp(1, 2),
            !.attractorCount = 2,
            !.attractors =
              <<[pos |-> <<2 * One, One, 0>>, strength |-> 2 * One, radius |-> 4 * One,
                 type |-> 0, axis |-> <<0, One, 0>>],
                [pos |-> <<0, 0, One>>, strength |-> One, radius |-> 0,
                 type |-> One, axis |-> <<0, One, 0>>]>>],
   features |-> [NoFeatures EXCEPT !.turbulence = TRUE, !.attractors = TRUE],
   tex |-> BakedCurve,
   autoStart |-> FALSE, delay |-> 0, emitCount |-> 2,
   position |-> <<0, One, 0>>, turbulenceSpeed |-> One]

\* velocity and rotation-speed curves enabled, bounce on the plane
OptCurve ==
  [u |-> [BaseUniforms EXCEPT !.velocityCurveEnabled = One,
            !.rotationSpeedCurveEnabled = One,
            !.gravity = <<0, -One, 0>>,
            !.collisionEnabled = One, !.collisionPlaneY = -One,
            !.lifetimeMin = Fp(1, 2), !.lifetimeMax = One,
            !.rotationSpeedMinX = One, !.rotationSpeedMaxX = One],
   features |-> [NoFeatures EXCEPT !.collision = TRUE, !.rotation = TRUE,
                   !.needsRotation = TRUE],
   tex |-> BakedCurve,
   autoStart |-> TRUE, delay |-> Fp(1, 2), emitCount |-> 1,
   position |-> <<0, One, 0>>, turbulenceSpeed |-> One]

Options == {OptFall, OptDie, OptBounce, OptForces, OptCurve}

\* createStorageArrays: zero-filled arrays of maxParticles elements, the
\* rotation and colour arrays only when the features need them
createStorageArrays(maxParticles, features) ==
  LET S == 0 .. (maxParticles - 1)
  IN [positions |-> [i \in S |-> Zero3],
      velocities |-> [i \in S |-> Zero3],
      lifetimes |-> [i \in S |-> 0],
      fadeRates |-> [i \in S |-> 0],
      particleSizes |-> [i \in S |-> 0],
      particleRotations |-> IF features.needsRotation THEN [i \in S |-> Zero3] ELSE NullArray,
      particleColorStarts |->
        IF features.needsPerParticleColor THEN [i \in S |-> Zero3] ELSE NullArray,
      particleColorEnds |->
        IF features.needsPerParticleColor THEN [i \in S |-> Zero3] ELSE NullArray]

\* the inputs of the calls: frame deltas (0, 0.5 and 1 second), spawn origins,
\* the values of Math.random() * 10000 behind spawnSeed, and spawn counts
Deltas == {0, Fp(1, 2), One}
Origins == {<<0, One, 0>>}
Seeds == {0, 1}
Counts == 0 .. MaxCount

\* ------------------------------------------------------------------ state
VARIABLES
  cpu,              \* cpuArrays: the particle store (structure of arrays)
  u,                \* uniforms
  features,         \* features, resolved at construction
  curveTexture,     \* curveTexture
  normalizedProps,  \* normalizedProps: maxParticles, delay, emitCount, autoStart
  position,         \* position, the origin of auto-emission
  turbulenceSpeed,  \* turbulenceSpeed
  nextIndex,        \* nextIndex, the spawn cursor
  initialized,      \* initialized
  isEmitting,       \* isEmitting
  emitAccumulator,  \* emitAccumulator
  options,          \* options: curveTexturePath is set or not
  initCall,         \* the init() call in flight: the await it is suspended at
  trailRenderObject, \* trailRenderObject is attached (not null)
  isWebGL,          \* isWebGL: the backend chosen by the constructor
  computeCalls,     \* the compute nodes handed to renderer.computeAsync so far
  wrapper,          \* the component driving the engine: none, r3f, vanilla or threlte
  wrapperEmitting,  \* the emitting flag a wrapper component keeps
  wrapperAccumulator, \* the emit accumulator a wrapper component keeps
  pending,          \* the device passes a frame loop issued that have not completed
  retval,           \* the value returned by the last call of a pure function
  tally,            \* the autoEmit calls counted since the last start()
  vfx,              \* a VFXParticles wrapper: its fields, its group, the engines it made
  lastOp,           \* the last call made on the engine and its arguments
  pre,              \* the engine's mutable state before that call
  steps             \* number of calls made so far

vars ==
  <<cpu, u, features, curveTexture, normalizedProps, position, turbulenceSpeed,
    nextIndex, initialized, isEmitting, emitAccumulator, options, initCall,
    trailRenderObject, isWebGL, computeCalls, wrapper, wrapperEmitting,
    wrapperAccumulator, pending, retval, tally, vfx, lastOp, pre, steps>>

\* the mutable fields of the engine, as one record
Snapshot ==
  [cpu |-> cpu, u |-> u, nextIndex |-> nextIndex, initialized |-> initialized,
   isEmitting |-> isEmitting, emitAccumulator |-> emitAccumulator, isWebGL |-> isWebGL,
   initCall |-> initCall, curveTexture |-> curveTexture]

\* the state after new VFXParticleSystem(renderer, options): zero-filled
\* arrays, cursor 0, not initialized; webgl is !isWebGPUBackend(renderer).  A
\* wrapper component w starts with its emitting flag at autoStart, the vanilla
\* wrapper with _emitting = true.
NoInitCall == [pc |-> "idle", disposed |-> FALSE]
\* no autoEmit call counted yet: the sum of their dt, the spawn() calls they
\* made, and whether every dt was <= delay
NoTally == [sum |-> 0, spawns |-> 0, bounded |-> TRUE]
ConstructEngine(opt, webgl, w) ==
  /\ features = opt.features
  /\ options =
       [curveTexturePath |->
          IF "curveTexturePath" \in DOMAIN opt THEN opt.curveTexturePath ELSE FALSE]
  /\ initCall = NoInitCall
  /\ trailRenderObject = FALSE
  /\ u = opt.u
  /\ curveTexture = opt.tex
  /\ normalizedProps =
       [maxParticles |-> MaxParticles, delay |-> opt.delay,
        emitCount |-> opt.emitCount, autoStart |-> opt.autoStart]
  /\ cpu = createStorageArrays(MaxParticles, opt.features)
  /\ position = opt.position
  /\ turbulenceSpeed = opt.turbulenceSpeed
  /\ nextIndex = 0
  /\ initialized = FALSE
  /\ isEmitting = opt.autoStart
  /\ emitAccumulator = 0
  /\ isWebGL = webgl
  /\ computeCalls = {}
  /\ wrapper = w
  /\ wrapperEmitting = (w = "vanilla" \/ opt.autoStart)
  /\ wrapperAccumulator = 0
  /\ pending = <<>>
  /\ retval = <<>>
  /\ tally = NoTally
  /\ lastOp = [op |-> "new", arg |-> 0, spawned |-> FALSE]
  /\ pre = [cpu |-> createStorageArrays(MaxParticles, opt.features), u |-> opt.u,
            nextIndex |-> 0, initialized |-> FALSE, isEmitting |-> opt.autoStart,
            emitAccumulator |-> 0, isWebGL |-> webgl, initCall |-> NoInitCall,
            curveTexture |-> opt.tex]
  /\ steps = 0
\* an engine that no VFXParticles wrapper owns
Construct(opt, webgl, w) == ConstructEngine(opt, webgl, w) /\ vfx = <<>>

\* an engine on a renderer without WebGPU: the Host-Sequential backend
Init == \E opt \in Options : Construct(opt, TRUE, "none")

\* the compute nodes of the engine: null on the CPU path
NullNode == "null"
ComputeNode(name) == IF isWebGL THEN NullNode ELSE name
\* the part of the engine that its passes read and write
Engine ==
  [u |-> u, nextIndex |-> nextIndex, cpu |-> cpu, calls |-> computeCalls,
   acc |-> emitAccumulator]

\* every call, and every resumption of a suspended call, is one step; the
\* record of the step and of the state before it
Logged(op, arg, spawned) ==
  /\ steps < MaxSteps
  /\ steps' = steps + 1
  /\ lastOp' = [op |-> op, arg |-> arg, spawned |-> spawned]
  /\ pre' = Snapshot
  /\ UNCHANGED <<features, normalizedProps, position, turbulenceSpeed, options, isWebGL,
                 wrapper, retval, vfx>>
\* a step of the engine that is not followed through the device queue
Recorded(op, arg, spawned) == Logged(op, arg, spawned) /\ UNCHANGED <<pending, tally>>
\* a call of a method other than init() and dispose()
Called(op, arg, spawned) ==
  /\ Recorded(op, arg, spawned)
  /\ UNCHANGED <<curveTexture, initCall, trailRenderObject>>

\* ------------------------------------------------------------- operations
\* where init() suspends next, from the curve load on: at the load of
\* curveTexturePath when the path is set, else at the import of the trail
\* library when trails are enabled on the device path, else nowhere (done)
AwaitFromTrail == IF features.trails /\ ~isWebGL THEN "awaitTrail" ELSE "done"
AwaitFromCurve == IF options.curveTexturePath THEN "awaitCurve" ELSE AwaitFromTrail
\* init() runs on to the await point pc, or to its last statement,
\* initialized = true, which it executes whatever happened while it was suspended
InitRunsTo(pc) ==
  IF pc = "done"
  THEN initialized' = TRUE /\ initCall' = NoInitCall
  ELSE initCall' = [initCall EXCEPT !.pc = pc] /\ UNCHANGED initialized

\* init(): a second call on an initialized engine returns at once; the CPU path
\* runs cpuInit and goes on, the device path dispatches computeInit and awaits it
InitCall ==
  /\ initCall.pc = "idle"
  /\ Recorded("init", 0, FALSE)
  /\ IF initialized
     THEN UNCHANGED <<cpu, initialized, computeCalls, initCall>>
     ELSE IF isWebGL
     THEN /\ cpu' = cpuInit(cpu, normalizedProps.maxParticles)
          /\ InitRunsTo(AwaitFromCurve)
          /\ UNCHANGED computeCalls
     ELSE /\ computeCalls' = computeCalls \cup {ComputeNode("computeInit")}
          /\ InitRunsTo("awaitInitPass")
          /\ UNCHANGED cpu
  /\ UNCHANGED <<u, nextIndex, isEmitting, emitAccumulator, wrapperEmitting,
                 wrapperAccumulator, curveTexture, trailRenderObject>>

\* dispose(): the trail object is disposed and detached; an init() call that
\* is suspended stays suspended
Dispose ==
  /\ Recorded("dispose", 0, FALSE)
  /\ trailRenderObject' = FALSE
  /\ initialized' = FALSE
  /\ nextIndex' = 0
  /\ initCall' = IF initCall.pc = "idle" THEN initCall ELSE [initCall EXCEPT !.disposed = TRUE]
  /\ UNCHANGED <<cpu, u, isEmitting, emitAccumulator, computeCalls, wrapperEmitting,
                 wrapperAccumulator, curveTexture>>

\* the awaited computeAsync(computeInit) of init() returns
InitPassDone ==
  /\ initCall.pc = "awaitInitPass"
  /\ Recorded("initPassDone", 0, FALSE)
  /\ InitRunsTo(AwaitFromCurve)
  /\ UNCHANGED <<cpu, u, nextIndex, isEmitting, emitAccumulator, computeCalls,
                 wrapperEmitting, wrapperAccumulator, curveTexture, trailRenderObject>>

\* the curve file behind curveTexturePath: its RGBA data and the channels it
\* declares active (the SIZE and ROTATION_SPEED bits of the mask)
LoadedCurve ==
  [data |-> <<0, One, One, 0,
              Fp(1, 2), One, Fp(1, 2), One,
              One, One, 0, 3 * One>>,
   activeChannels |-> {"SIZE", "ROTATION_SPEED"}]
\* a load that rejects
RejectedLoad == [data |-> <<>>, activeChannels |-> {}]
CurveLoads == {LoadedCurve, RejectedLoad}
\* a curve-enabled flag from the channel mask
ChannelFlag(result, channel) == IF channel \in result.activeChannels THEN One ELSE 0

\* mutant: the catch block falls back to a curve with every flag switched off
FlagsClearedOnLoadFailure(uniforms) ==
  [uniforms EXCEPT !.fadeSizeCurveEnabled = 0, !.fadeOpacityCurveEnabled = 0,
                   !.velocityCurveEnabled = 0, !.rotationSpeedCurveEnabled = 0]
\* the catch block of the curve load: a warning, nothing is written
UniformsOnLoadFailure(uniforms) == uniforms

\* the awaited loadCurveTextureFromPath of init() settles: on success the data
\* is copied into the existing texture and the four flags are set from the
\* channel mask; on rejection the catch block keeps texture and flags
CurveLoad(result) ==
  /\ initCall.pc = "awaitCurve"
  /\ Recorded("curveLoad", IF result = RejectedLoad THEN 0 ELSE 1, FALSE)
  /\ IF result = RejectedLoad
     THEN /\ u' = UniformsOnLoadFailure(u)
          /\ UNCHANGED curveTexture
     ELSE /\ curveTexture' = [curveTexture EXCEPT !.data = result.data]
          /\ u' = [u EXCEPT
                     !.fadeSizeCurveEnabled = ChannelFlag(result, "SIZE"),
                     !.fadeOpacityCurveEnabled = ChannelFlag(result, "OPACITY"),
                     !.velocityCurveEnabled = ChannelFlag(result, "VELOCITY"),
                     !.rotationSpeedCurveEnabled = ChannelFlag(result, "ROTATION_SPEED")]
  /\ InitRunsTo(AwaitFromTrail)
  /\ UNCHANGED <<cpu, nextIndex, isEmitting, emitAccumulator, computeCalls,
                 wrapperEmitting, wrapperAccumulator, trailRenderObject>>

\* the awaited imports of the trail library settle: on success the MeshLine is
\* built and attached as trailRenderObject; on failure a warning or an error is
\* logged
TrailImport(ok) ==
  /\ initCall.pc = "awaitTrail"
  /\ Recorded("trailImport", IF ok THEN 1 ELSE 0, FALSE)
  /\ trailRenderObject' = IF ok THEN TRUE ELSE trailRenderObject
  /\ InitRunsTo("done")
  /\ UNCHANGED <<cpu, u, nextIndex, isEmitting, emitAccumulator, computeCalls,
                 wrapperEmitting, wrapperAccumulator, curveTexture>>

\* mutant: the cursor advances without wrapping
SpawnEndIndexNoWrap(startIdx, count, maxParticles) == startIdx + count
\* endIdx = (startIdx + count) % maxParticles
SpawnEndIndex(startIdx, count, maxParticles) == (startIdx + count) % maxParticles

\* mutant: spawn() without its guard on initialized
SpawnOnAnyEngine(s, x, y, z, count, seed) ==
  LET startIdx == s.nextIndex
      endIdx == SpawnEndIndex(startIdx, count, normalizedProps.maxParticles)
      u1 == [s.u EXCEPT !.spawnPosition = <<x, y, z>>, !.spawnIndexStart = startIdx,
                        !.spawnIndexEnd = endIdx, !.spawnSeed = seed]
  IN [s EXCEPT
        !.u = u1,
        !.nextIndex = endIdx,
        !.cpu = IF isWebGL THEN cpuSpawn(s.cpu, u1, normalizedProps.maxParticles) ELSE @,
        !.calls = IF isWebGL THEN @ ELSE @ \cup {ComputeNode("computeSpawn")}]
\* spawn(x, y, z, count) with Math.random() * 10000 = seed, applied to the
\* engine fields s: the uniforms and the cursor are set, then the CPU path runs
\* cpuSpawn and the device path dispatches computeSpawn
SpawnOn(s, x, y, z, count, seed) ==
  IF ~initialized
  THEN s
  ELSE LET startIdx == s.nextIndex
           endIdx == SpawnEndIndex(startIdx, count, normalizedProps.maxParticles)
           u1 == [s.u EXCEPT !.spawnPosition = <<x, y, z>>, !.spawnIndexStart = startIdx,
                             !.spawnIndexEnd = endIdx, !.spawnSeed = seed]
       IN [s EXCEPT
             !.u = u1,
             !.nextIndex = endIdx,
             !.cpu = IF isWebGL THEN cpuSpawn(s.cpu, u1, normalizedProps.maxParticles) ELSE @,
             !.calls = IF isWebGL THEN @ ELSE @ \cup {ComputeNode("computeSpawn")}]
\* the effect of spawn(x, y, z, count) on the engine as it is
SpawnEffect(x, y, z, count, seed) == SpawnOn(Engine, x, y, z, count, seed)

\* spawn(x, y, z, count)
Spawn(o, count, seed) ==
  LET r == SpawnEffect(o[1], o[2], o[3], count, seed)
  IN /\ Called("spawn", count, initialized)
     /\ u' = r.u
     /\ nextIndex' = r.nextIndex
     /\ cpu' = r.cpu
     /\ computeCalls' = r.calls
     /\ UNCHANGED <<initialized, isEmitting, emitAccumulator, wrapperEmitting,
                    wrapperAccumulator>>

\* applySpawnOverrides(uniforms, overrides): every uniform named by overrides
\* takes the override's value; the values replaced are kept for restore().
\* With overrides = null nothing is replaced and restore is null.
NoOverrides == <<>>
\* the uniforms with the spawn ranges replaced by the values of the record r
\* where r names them
WithSpawnRanges(uniforms, r) ==
  LET V(f) == IF f \in DOMAIN r THEN r[f] ELSE uniforms[f]
  IN [uniforms EXCEPT
        !.speedMin = V("speedMin"), !.speedMax = V("speedMax"),
        !.sizeMin = V("sizeMin"), !.sizeMax = V("sizeMax"),
        !.lifetimeMin = V("lifetimeMin"), !.lifetimeMax = V("lifetimeMax"),
        !.dirMin = V("dirMin"), !.dirMax = V("dirMax"),
        !.startPosMin = V("startPosMin"), !.startPosMax = V("startPosMax"),
        !.rotationMin = V("rotationMin"), !.rotationMax = V("rotationMax"),
        !.colorStart0 = V("colorStart0"), !.colorEnd0 = V("colorEnd0")]
applySpawnOverrides(uniforms, overrides) ==
  [u |-> WithSpawnRanges(uniforms, overrides),
   restore |-> [f \in DOMAIN overrides |-> uniforms[f]]]
\* restore(): the kept values are written back
Restore(uniforms, saved) == WithSpawnRanges(uniforms, saved)

\* a one-off burst: faster, larger, green particles
BurstOverrides ==
  [speedMin |-> 8 * One, speedMax |-> 8 * One, sizeMin |-> 2 * One, sizeMax |-> 2 * One,
   colorStart0 |-> <<0, One, 0>>]
OverrideSets == {NoOverrides, BurstOverrides}
\* how the spawn write ends: it returns, or it throws before writing a slot
SpawnOutcomes == {"returns", "throws"}

\* spawn(x, y, z, count, overrides): the overrides are applied, the spawn
\* uniforms and the cursor are set, the spawn pass runs, restore() is called.
\* restore() is the statement after the spawn pass, outside any try/finally:
\* when the spawn pass throws, control leaves spawn() before it.
SpawnWithOverrides(o, count, seed, overrides, outcome) ==
  /\ Called("spawn", count, initialized)
  /\ IF ~initialized
     THEN UNCHANGED <<u, nextIndex, cpu>>
     ELSE LET applied == applySpawnOverrides(u, overrides)
              startIdx == nextIndex
              endIdx == SpawnEndIndex(startIdx, count, normalizedProps.maxParticles)
              u1 == [applied.u EXCEPT !.spawnPosition = o, !.spawnIndexStart = startIdx,
                                      !.spawnIndexEnd = endIdx, !.spawnSeed = seed]
          IN /\ nextIndex' = endIdx
             /\ IF outcome = "throws"
                THEN u' = u1 /\ cpu' = cpu
                ELSE /\ cpu' = cpuSpawn(cpu, u1, normalizedProps.maxParticles)
                     /\ u' = Restore(u1, applied.restore)
  /\ UNCHANGED <<initialized, isEmitting, emitAccumulator, computeCalls,
                 wrapperEmitting, wrapperAccumulator>>

\* update(delta): the time uniforms are set, then the CPU path runs cpuUpdate
\* and the device path dispatches computeUpdate
Update(delta) ==
  /\ Called("update", delta, FALSE)
  /\ IF ~initialized
     THEN UNCHANGED <<u, cpu, computeCalls>>
     ELSE LET u1 == [u EXCEPT !.deltaTime = delta,
                              !.turbulenceTime = @ + Mul(delta, turbulenceSpeed)]
          IN /\ u' = u1
             /\ IF isWebGL
                THEN /\ cpu' = cpuUpdate(cpu, u1, curveTexture,
                                         normalizedProps.maxParticles, features)
                     /\ UNCHANGED computeCalls
                ELSE /\ computeCalls' = computeCalls \cup {ComputeNode("computeUpdate")}
                     /\ UNCHANGED cpu
  /\ UNCHANGED <<nextIndex, initialized, isEmitting, emitAccumulator, wrapperEmitting,
                 wrapperAccumulator>>

\* mutant: the accumulator is reset to zero after an emission
AccumulatorResetAfterEmit(acc, currentDelay) == 0
\* the accumulator after an emission: the delay is subtracted
AccumulatorAfterEmit(acc, currentDelay) == acc - currentDelay

\* autoEmit(delta), applied to the engine fields s
AutoEmitOn(s, delta, seed) ==
  LET currentDelay == normalizedProps.delay
      currentEmitCount == normalizedProps.emitCount
      acc == s.acc + delta
      emits == isEmitting /\ (currentDelay = 0 \/ acc >= currentDelay)
      s1 == [s EXCEPT !.acc =
               IF ~isEmitting \/ currentDelay = 0 THEN @
               ELSE IF acc >= currentDelay THEN AccumulatorAfterEmit(acc, currentDelay)
               ELSE acc]
  IN IF emits
     THEN SpawnOn(s1, position[1], position[2], position[3], currentEmitCount, seed)
     ELSE s1

\* autoEmit(delta) calls spawn()
Emits(delta) ==
  LET currentDelay == normalizedProps.delay
  IN isEmitting /\ (currentDelay = 0 \/ emitAccumulator + delta >= currentDelay)
\* what autoEmit(delta) does to the engine
AutoEmitEffect(delta, seed) ==
  LET r == AutoEmitOn(Engine, delta, seed)
  IN /\ emitAccumulator' = r.acc
     /\ u' = r.u
     /\ nextIndex' = r.nextIndex
     /\ cpu' = r.cpu
     /\ computeCalls' = r.calls
     /\ UNCHANGED <<initialized, isEmitting, wrapperEmitting, wrapperAccumulator>>
\* autoEmit(delta)
AutoEmit(delta, seed) ==
  /\ Called("autoEmit", delta, Emits(delta) /\ initialized)
  /\ AutoEmitEffect(delta, seed)

\* start()
\* mutant: start() leaves the accumulator as it is
AccumulatorKeptAfterStart(acc) == acc
\* the accumulator after start()
AccumulatorAfterStart(acc) == 0
StartEffect ==
  /\ isEmitting' = TRUE
  /\ emitAccumulator' = AccumulatorAfterStart(emitAccumulator)
  /\ UNCHANGED <<cpu, u, nextIndex, initialized, computeCalls, wrapperEmitting,
                 wrapperAccumulator>>
Start ==
  /\ Called("start", 0, FALSE)
  /\ StartEffect

\* stop()
Stop ==
  /\ Called("stop", 0, FALSE)
  /\ isEmitting' = FALSE
  /\ UNCHANGED <<cpu, u, nextIndex, initialized, emitAccumulator, computeCalls,
                 wrapperEmitting, wrapperAccumulator>>

\* clear(): no initialized guard; the CPU path runs cpuInit, the device path
\* dispatches computeInit
\* mutant: clear() resets the store but leaves the cursor where it was
CursorKeptAfterClear(k) == k
\* the cursor after clear()
CursorAfterClear(k) == 0
Clear ==
  /\ Called("clear", 0, FALSE)
  /\ IF isWebGL
     THEN /\ cpu' = cpuInit(cpu, normalizedProps.maxParticles)
          /\ UNCHANGED computeCalls
     ELSE /\ computeCalls' = computeCalls \cup {ComputeNode("computeInit")}
          /\ UNCHANGED cpu
  /\ nextIndex' = CursorAfterClear(nextIndex)
  /\ UNCHANGED <<u, initialized, isEmitting, emitAccumulator, wrapperEmitting,
                 wrapperAccumulator>>

Next ==
  \/ InitCall
  \/ Dispose
  \/ \E o \in Origins, count \in Counts, seed \in Seeds : Spawn(o, count, seed)
  \/ \E delta \in Deltas : Update(delta)
  \/ \E delta \in Deltas, seed \in Seeds : AutoEmit(delta, seed)
  \/ Start
  \/ Stop
  \/ Clear

Spec == Init /\ [][Next]_vars

\* the engine with spawn overrides and with a spawn pass that may throw
OverrideCounts == {1, 2}
NextOverrides ==
  \/ InitCall
  \/ \E o \in Origins, count \in OverrideCounts, seed \in Seeds,
        overrides \in OverrideSets, outcome \in SpawnOutcomes :
        SpawnWithOverrides(o, count, seed, overrides, outcome)
  \/ \E delta \in Deltas : Update(delta)
  \/ Clear

SpecOverrides == Init /\ [][NextOverrides]_vars

\* ------------------------------------------------------- the pure functions
\* a call of a function that reads its arguments and returns a value: the
\* engine is left as it is
Returned(op, arg, value) ==
  /\ steps < MaxSteps
  /\ steps' = steps + 1
  /\ lastOp' = [op |-> op, arg |-> arg, spawned |-> FALSE]
  /\ retval' = value
  /\ UNCHANGED <<cpu, u, features, curveTexture, normalizedProps, position,
                 turbulenceSpeed, nextIndex, initialized, isEmitting, emitAccumulator,
                 options, initCall, trailRenderObject, isWebGL, computeCalls, wrapper,
                 wrapperEmitting, wrapperAccumulator, pending, tally, vfx, pre>>

\* curve textures of 1 .. MaxWidth texels, two data sets for each width
MaxWidth == 3
CurveOfWidth(width, k) ==
  [width |-> width,
   data |-> [j \in 1 .. (4 * width) |-> (((j + k) * 7) % 5) * Fp(1, 2) - k * One]]
CurveTextures == {CurveOfWidth(width, k) : width \in 1 .. MaxWidth, k \in {0, 1}}
\* progress values below 0, at 0, inside (0, 1), at 1 and above 1
Progresses ==
  {-One, -1, 0, 1, Fp(1, 4), Fp(1, 3), Fp(1, 2), Fp(2, 3), Fp(3, 4), One - 1, One,
   One + 1, 2 * One}

InitCurve == \E tex \in CurveTextures : Construct([OptCurve EXCEPT !.tex = tex], TRUE, "none")
\* sampleCurve(curveTexture, progress)
SampleCurve(progress) ==
  Returned("sampleCurve", progress, sampleCurve(curveTexture, progress))
NextCurve == \E progress \in Progresses : SampleCurve(progress)
SpecCurve == InitCurve /\ [][NextCurve]_vars

\* attractors at two positions, of both types, with axes whose components are
\* 0, 1 or -1 (the zero axis and an axis that is not normalised included), a
\* radius that is 0, at the 0.001 threshold, positive or negative, and a
\* strength of either sign, tiny, or at the 0.001 threshold under which the
\* attractor is skipped
Attractors ==
  {[pos |-> pos, strength |-> strength, radius |-> radius, type |-> type, axis |-> axis] :
     pos \in {Zero3, <<One, 2 * One, -One>>},
     strength \in {2 * One, -One, Fp(1, 500), Fp(1, 1000)},
     radius \in {0, Fp(1, 1000), 2 * One, -One},
     type \in {0, One},
     axis \in {<<0, One, 0>>, <<One, 0, 0>>, <<0, -One, One>>, <<One, One, 0>>, Zero3}}
\* the particle relative to the attractor: exactly at it, closer than 0.01, on
\* the y axis and on the x axis through it, and off every axis
ParticleOffsets ==
  {Zero3, <<Fp(1, 200), 0, 0>>, <<0, One, 0>>, <<-One, 0, 0>>, <<One, One, 0>>,
   <<Fp(1, 3), -Fp(7, 10), Fp(5, 4)>>, <<3 * One, -2 * One, Fp(1, 2)>>}

InitAttractor == Construct(OptForces, TRUE, "none")
\* one pass of the attractor loop body for one attractor and one particle,
\* applied once to the inputs chosen
ApplyAttractor(att, p) ==
  /\ steps = 0
  /\ Returned("attractorForce", 0,
              [att |-> att, p |-> p, force |-> AttractorForce(att, p),
               divisors |-> AttractorDivisors(att, p)])
NextAttractor ==
  \E att \in Attractors, d \in ParticleOffsets :
    ApplyAttractor(att, <<att.pos[1] - d[1], att.pos[2] - d[2], att.pos[3] - d[3]>>)
SpecAttractor == InitAttractor /\ [][NextAttractor]_vars

\* --------------------------------------------------- init() with its awaits
\* engines on either backend, with or without curveTexturePath and trails
AsyncOptions ==
  {[opt EXCEPT !.features.trails = trails] @@ [curveTexturePath |-> path] :
     opt \in {OptBounce, OptCurve}, trails \in BOOLEAN, path \in BOOLEAN}
InitAsync == \E opt \in AsyncOptions, webgl \in BOOLEAN : Construct(opt, webgl, "none")

NextAsync ==
  \/ InitCall
  \/ InitPassDone
  \/ \E result \in CurveLoads : CurveLoad(result)
  \/ \E ok \in BOOLEAN : TrailImport(ok)
  \/ Dispose
  \/ \E o \in Origins, seed \in Seeds : Spawn(o, 1, seed)
  \/ \E delta \in Deltas : Update(delta)

SpecAsync == InitAsync /\ [][NextAsync]_vars

\* ------------------------------------------------------ wrapper components
\* the frame loop of the React wrapper (useFrame): it sets the time uniforms
\* itself and hands system.computeUpdate to renderer.computeAsync, whatever the
\* backend; then it auto-emits with its own flag and accumulator through
\* system.spawn.  With a null node the awaited call may reject, which ends the
\* callback before the emission.
FrameR3F(delta, seed, rejects) ==
  LET u1 == [u EXCEPT !.deltaTime = delta,
                      !.turbulenceTime = @ + Mul(delta, turbulenceSpeed)]
      node == ComputeNode("computeUpdate")
      s1 == [Engine EXCEPT !.u = u1, !.calls = @ \cup {node}]
      currentDelay == normalizedProps.delay
      acc == wrapperAccumulator + delta
      stops == node = NullNode /\ rejects
      emits == ~stops /\ wrapperEmitting /\ (currentDelay = 0 \/ acc >= currentDelay)
      r == IF emits
           THEN SpawnOn(s1, position[1], position[2], position[3],
                        normalizedProps.emitCount, seed)
           ELSE s1
  IN /\ wrapper = "r3f"
     /\ Called("frame", delta, emits /\ initialized)
     /\ IF ~initialized
        THEN UNCHANGED <<u, nextIndex, cpu, computeCalls, wrapperAccumulator>>
        ELSE /\ u' = r.u
             /\ nextIndex' = r.nextIndex
             /\ cpu' = r.cpu
             /\ computeCalls' = r.calls
             /\ wrapperAccumulator' =
                  IF stops \/ ~wrapperEmitting \/ currentDelay = 0 THEN wrapperAccumulator
                  ELSE IF acc >= currentDelay THEN acc - currentDelay
                  ELSE acc
     /\ UNCHANGED <<initialized, isEmitting, emitAccumulator, wrapperEmitting>>

\* start() of the React wrapper: it sets its flag and resets its accumulator
WrapperStart ==
  /\ wrapper = "r3f"
  /\ Called("start", 0, FALSE)
  /\ wrapperEmitting' = TRUE
  /\ wrapperAccumulator' = 0
  /\ UNCHANGED <<cpu, u, nextIndex, initialized, computeCalls, isEmitting,
                 emitAccumulator>>

\* stop() of the React wrapper
WrapperStop ==
  /\ wrapper = "r3f"
  /\ Called("stop", 0, FALSE)
  /\ wrapperEmitting' = FALSE
  /\ UNCHANGED <<cpu, u, nextIndex, initialized, computeCalls, isEmitting,
                 emitAccumulator, wrapperAccumulator>>

\* ------------------------------------- frame loops on the device backend
\* a step of a frame loop, or the completion of a pass it issued
FrameStep(op, arg, spawned) ==
  /\ Logged(op, arg, spawned)
  /\ UNCHANGED <<curveTexture, initCall, trailRenderObject, cpu, initialized, isEmitting,
                 tally>>
\* update(delta) of the engine on the device path, applied to the engine
\* fields s: the time uniforms are set and computeUpdate is handed to
\* renderer.computeAsync
DeviceUpdateOn(s, delta) ==
  [s EXCEPT !.u = [@ EXCEPT !.deltaTime = delta,
                            !.turbulenceTime = @ + Mul(delta, turbulenceSpeed)],
            !.calls = @ \cup {"computeUpdate"}]
\* VFXParticles.update(delta) with the engine on the device path: auto-emission
\* with the wrapper's own flag and accumulator through system.spawn, then
\* system.update(delta), whose promise is dropped
FrameVanilla(delta, seed) ==
  LET delay == normalizedProps.delay
      acc == wrapperAccumulator + delta
      emits == wrapperEmitting /\ (delay = 0 \/ acc >= delay)
      s1 == IF emits
            THEN SpawnOn(Engine, position[1], position[2], position[3],
                         normalizedProps.emitCount, seed)
            ELSE Engine
      r == DeviceUpdateOn(s1, delta)
  IN /\ wrapper = "vanilla" /\ ~isWebGL
     /\ FrameStep("frame", delta, emits /\ initialized)
     /\ IF ~initialized
        THEN UNCHANGED <<u, nextIndex, computeCalls, wrapperAccumulator, pending>>
        ELSE /\ u' = r.u
             /\ nextIndex' = r.nextIndex
             /\ computeCalls' = r.calls
             /\ wrapperAccumulator' =
                  IF ~wrapperEmitting \/ delay = 0 THEN wrapperAccumulator
                  ELSE IF acc >= delay THEN acc - delay
                  ELSE acc
             /\ pending' =
                  pending \o (IF emits THEN <<"computeSpawn">> ELSE <<>>)
                          \o <<"computeUpdate">>
     /\ UNCHANGED <<emitAccumulator, wrapperEmitting>>

\* the useTask frame loop of the Svelte wrapper with the engine on the device
\* path: system.update(delta), whose promise is dropped, then
\* system.autoEmit(delta) when the wrapper's flag is set
FrameThrelte(delta, seed) ==
  LET s1 == DeviceUpdateOn(Engine, delta)
      r == IF wrapperEmitting THEN AutoEmitOn(s1, delta, seed) ELSE s1
      emits == wrapperEmitting /\ isEmitting
                 /\ (normalizedProps.delay = 0
                       \/ emitAccumulator + delta >= normalizedProps.delay)
  IN /\ wrapper = "threlte" /\ ~isWebGL
     /\ FrameStep("frame", delta, emits /\ initialized)
     /\ IF ~initialized
        THEN UNCHANGED <<u, nextIndex, computeCalls, emitAccumulator, pending>>
        ELSE /\ u' = r.u
             /\ nextIndex' = r.nextIndex
             /\ computeCalls' = r.calls
             /\ emitAccumulator' = r.acc
             /\ pending' =
                  pending \o <<"computeUpdate">>
                          \o (IF emits THEN <<"computeSpawn">> ELSE <<>>)
     /\ UNCHANGED <<wrapperEmitting, wrapperAccumulator>>

\* the device completes the oldest pass of its queue
PassDone ==
  /\ pending # <<>>
  /\ FrameStep("passDone", 0, FALSE)
  /\ pending' = Tail(pending)
  /\ UNCHANGED <<u, nextIndex, computeCalls, emitAccumulator, wrapperEmitting,
                 wrapperAccumulator>>

FrameWrappers == {"vanilla", "threlte"}
BackendOptions == {OptFall, OptDie}
InitFrames ==
  \E opt \in BackendOptions, w \in FrameWrappers : Construct(opt, FALSE, w)
NextFrames ==
  \/ InitCall
  \/ InitPassDone
  \/ \E delta \in Deltas, seed \in Seeds : FrameVanilla(delta, seed)
  \/ \E delta \in Deltas, seed \in Seeds : FrameThrelte(delta, seed)
  \/ PassDone
SpecFrames == InitFrames /\ [][NextFrames]_vars

\* engines on either backend, driven directly or by a wrapper component
Wrappers == {"none", "r3f"}
InitBackend ==
  \E opt \in BackendOptions, webgl \in BOOLEAN, w \in Wrappers : Construct(opt, webgl, w)

NextBackend ==
  \/ InitCall
  \/ InitPassDone
  \/ \E o \in Origins, count \in OverrideCounts, seed \in Seeds : Spawn(o, count, seed)
  \/ wrapper = "none" /\ \E delta \in Deltas : Update(delta)
  \/ Clear
  \/ \E delta \in Deltas, seed \in Seeds, rejects \in BOOLEAN : FrameR3F(delta, seed, rejects)
  \/ WrapperStart
  \/ WrapperStop

SpecBackend == InitBackend /\ [][NextBackend]_vars

\* ------------------------------------------- the vanilla VFXParticles wrapper
\* VFXParticles with the engines it creates.  An engine is kept by the fields
\* the wrapper reads and writes: features, initialized, isEmitting, the cursor,
\* the number of spawns written to its store, the size uniform and the delay;
\* disposed records that dispose() was called on it.  Engines are numbered in
\* the order of their construction; _system = 0 is null.
MaxEngines == 3
MaxCalls == 5
STRUCTURAL_KEYS == {"maxParticles", "lighting", "appearance", "shadow", "orientToDirection"}
\* new VFXParticleSystem(renderer, config)
NewSystem(config) ==
  [features |-> [turbulence |-> config.turbulence], initialized |-> FALSE,
   disposed |-> FALSE, isEmitting |-> config.autoStart, nextIndex |-> 0, spawns |-> 0,
   sizeMin |-> config.size, delay |-> config.delay]
\* system.dispose()
DisposeSystem(e) == [e EXCEPT !.initialized = FALSE, !.nextIndex = 0, !.disposed = TRUE]
\* system.spawn(px, py, pz, emitCount) with emitCount 1
SpawnSystem(e) ==
  IF ~e.initialized THEN e
  ELSE [e EXCEPT !.nextIndex = SpawnEndIndex(@, 1, MaxParticles), !.spawns = @ + 1]
\* new VFXParticles(renderer, options): no engine yet, _emitting = true.
\* options, started and inits are history: the constructor's options, whether
\* start() has been called, and the number of init() calls that went on to
\* _recreateSystem().
NewParticles(opts) ==
  [config |-> opts, system |-> 0, emitting |-> TRUE, emitAccumulator |-> 0,
   initialized |-> FALSE, group |-> {}, engines |-> <<>>, awaited |-> {},
   initAwaits |-> {}, imports |-> 0, options |-> opts, started |-> FALSE,
   inits |-> 0]
\* a call on the wrapper, or the resumption of one of its suspended calls
ParticlesStep(op, arg) ==
  /\ steps < MaxCalls
  /\ steps' = steps + 1
  /\ lastOp' = [op |-> op, arg |-> arg, spawned |-> FALSE]
  /\ UNCHANGED <<cpu, u, features, curveTexture, normalizedProps, position,
                 turbulenceSpeed, nextIndex, initialized, isEmitting, emitAccumulator,
                 options, initCall, trailRenderObject, isWebGL, computeCalls, wrapper,
                 wrapperEmitting, wrapperAccumulator, pending, retval, tally, pre>>

\* _recreateSystem() up to 'await s.init()': the current engine's render object
\* is removed from the group and the engine disposed, _system still names it;
\* a new engine is constructed from the config and its init() awaited
recreateSystem(w) ==
  LET removed ==
        IF w.system # 0
        THEN [w EXCEPT !.group = @ \ {w.system},
                       !.engines[w.system] = DisposeSystem(@)]
        ELSE w
      s == Len(w.engines) + 1
  IN [removed EXCEPT !.engines = Append(@, NewSystem(w.config)),
                     !.awaited = @ \cup {s}]
\* mutant: the re-creation leaves the accumulator where it was
AccumulatorKeptAfterRecreate(acc) == acc
\* this._emitAccumulator = 0, the last statement of _recreateSystem()
AccumulatorAfterRecreate(acc) == 0
\* s.init() has resolved and _recreateSystem() resumes: the engine is
\* installed, its render object added to the group, the accumulator reset;
\* an init() that awaited this call sets _initialized
RecreateDone(s) ==
  /\ s \in vfx.awaited
  /\ ParticlesStep("recreated", s)
  /\ vfx' = [vfx EXCEPT !.engines[s].initialized = TRUE,
                        !.system = s,
                        !.group = @ \cup {s},
                        !.emitAccumulator = AccumulatorAfterRecreate(@),
                        !.awaited = @ \ {s},
                        !.initialized = @ \/ s \in vfx.initAwaits,
                        !.initAwaits = @ \ {s}]
\* init(): returns at once when _initialized, else awaits _recreateSystem()
ParticlesInit ==
  /\ vfx.initialized \/ Len(vfx.engines) < MaxEngines
  /\ ParticlesStep("init", 0)
  /\ vfx' = IF vfx.initialized THEN vfx
            ELSE [recreateSystem(vfx) EXCEPT !.initAwaits = @ \cup {Len(vfx.engines) + 1},
                                             !.inits = @ + 1]

\* _applyUniformUpdates(newValues): nothing without an engine; else the
\* uniforms named by newValues are set on _system, and autoStart sets the
\* wrapper's flag and starts or stops the engine
applyUniformUpdates(w, newValues) ==
  IF w.system = 0 THEN w
  ELSE LET sized ==
             IF "size" \in DOMAIN newValues
             THEN [w EXCEPT !.engines[w.system].sizeMin = newValues.size]
             ELSE w
       IN IF "autoStart" \in DOMAIN newValues
          THEN [sized EXCEPT !.emitting = newValues.autoStart,
                             !.engines[w.system].isEmitting = newValues.autoStart]
          ELSE sized
\* what setProps(newValues) decides: a feature flag differs from the flag of
\* the engine _system names (false without one), a geometry key is given, a
\* structural key is given, or none of these
Decision(w, newValues) ==
  LET oldHasTurbulence ==
        IF w.system # 0 THEN w.engines[w.system].features.turbulence ELSE FALSE
  IN IF "turbulence" \in DOMAIN newValues /\ newValues.turbulence # oldHasTurbulence
     THEN "recreate"
     ELSE IF "geometryType" \in DOMAIN newValues THEN "import"
     ELSE IF STRUCTURAL_KEYS \cap DOMAIN newValues # {} THEN "recreate"
     ELSE "apply"
\* setProps(newValues): the config becomes { ...this._config, ...newValues }
setProps(newValues) ==
  LET merged ==
        [vfx EXCEPT !.config =
           [k \in DOMAIN @ |-> IF k \in DOMAIN newValues THEN newValues[k] ELSE @[k]]]
      decision == Decision(vfx, newValues)
  IN /\ decision = "recreate" => Len(vfx.engines) < MaxEngines
     /\ ParticlesStep("setProps", newValues)
     /\ vfx' = IF decision = "recreate" THEN recreateSystem(merged)
               ELSE IF decision = "import" THEN [merged EXCEPT !.imports = @ + 1]
               ELSE applyUniformUpdates(merged, newValues)
\* the import of the geometry helpers has resolved: _recreateSystem() is called
ImportDone ==
  /\ vfx.imports > 0
  /\ Len(vfx.engines) < MaxEngines
  /\ ParticlesStep("imported", 0)
  /\ vfx' = [recreateSystem(vfx) EXCEPT !.imports = @ - 1]

\* update(delta): nothing without an initialized engine; auto-emission while
\* _emitting, on the wrapper's accumulator; then the engine's update
ParticlesUpdate(delta) ==
  /\ ParticlesStep("update", delta)
  /\ vfx' =
       IF vfx.system = 0 THEN vfx
       ELSE IF ~vfx.engines[vfx.system].initialized THEN vfx
       ELSE IF ~vfx.emitting THEN vfx
       ELSE LET delay == vfx.engines[vfx.system].delay
                acc == vfx.emitAccumulator + delta
            IN IF delay = 0
               THEN [vfx EXCEPT !.engines[vfx.system] = SpawnSystem(@)]
               ELSE IF acc >= delay
               THEN [vfx EXCEPT !.emitAccumulator = acc - delay,
                                !.engines[vfx.system] = SpawnSystem(@)]
               ELSE [vfx EXCEPT !.emitAccumulator = acc]
\* start()
ParticlesStart ==
  /\ ParticlesStep("start", 0)
  /\ vfx' = IF vfx.system = 0
            THEN [vfx EXCEPT !.emitting = TRUE, !.emitAccumulator = 0, !.started = TRUE]
            ELSE [vfx EXCEPT !.emitting = TRUE, !.emitAccumulator = 0, !.started = TRUE,
                             !.engines[vfx.system].isEmitting = TRUE]
\* stop()
ParticlesStop ==
  /\ ParticlesStep("stop", 0)
  /\ vfx' = IF vfx.system = 0
            THEN [vfx EXCEPT !.emitting = FALSE]
            ELSE [vfx EXCEPT !.emitting = FALSE,
                             !.engines[vfx.system].isEmitting = FALSE]
\* dispose(): the engine's render object is removed and the engine disposed,
\* _system = null, _initialized = false; calls in flight stay in flight
ParticlesDispose ==
  /\ ParticlesStep("dispose", 0)
  /\ vfx' = IF vfx.system = 0
            THEN [vfx EXCEPT !.initialized = FALSE]
            ELSE [vfx EXCEPT !.group = @ \ {vfx.system},
                             !.engines[vfx.system] = DisposeSystem(@),
                             !.system = 0,
                             !.initialized = FALSE]

\* the options of a wrapper, and the values given to setProps: a live key, a
\* structural key, the turbulence feature on and off, a geometry key, autoStart
NewValues ==
  {[size |-> 2], [maxParticles |-> MaxParticles], [turbulence |-> TRUE],
   [turbulence |-> FALSE], [geometryType |-> 1], [autoStart |-> FALSE]}
InitVanilla ==
  /\ ConstructEngine(OptFall, TRUE, "vanilla")
  /\ \E a \in BOOLEAN, d \in {0, One} :
       vfx = NewParticles([autoStart |-> a, turbulence |-> FALSE, delay |-> d, size |-> 1,
                           maxParticles |-> MaxParticles, geometryType |-> 0])
NextVanilla ==
  \/ ParticlesInit
  \/ \E s \in 1 .. MaxEngines : RecreateDone(s)
  \/ \E newValues \in NewValues : setProps(newValues)
  \/ ImportDone
  \/ \E delta \in {Fp(1, 2), One} : ParticlesUpdate(delta)
  \/ ParticlesStart
  \/ ParticlesStop
  \/ ParticlesDispose
SpecVanilla == InitVanilla /\ [][NextVanilla]_vars

\* ------------------------------------------------------- the emission rate
\* the engine with delay > 0 under autoEmit, start and stop, with the autoEmit
\* calls made while emitting counted since the last start()
Tallied(op, arg, spawned) ==
  /\ Logged(op, arg, spawned)
  /\ UNCHANGED <<pending, curveTexture, initCall, trailRenderObject>>
TalliedAutoEmit(delta, seed) ==
  /\ Tallied("autoEmit", delta, Emits(delta) /\ initialized)
  /\ AutoEmitEffect(delta, seed)
  /\ tally' =
       IF ~isEmitting THEN tally
       ELSE [sum |-> tally.sum + delta,
             spawns |-> tally.spawns + (IF Emits(delta) THEN 1 ELSE 0),
             bounded |-> tally.bounded /\ delta <= normalizedProps.delay]
TalliedStart ==
  /\ Tallied("start", 0, FALSE)
  /\ StartEffect
  /\ tally' = NoTally
InitEmit == \E opt \in {OptDie, OptBounce, OptCurve} : Construct(opt, TRUE, "none")
NextEmit ==
  \/ InitCall
  \/ \E delta \in Deltas, seed \in Seeds : TalliedAutoEmit(delta, seed)
  \/ TalliedStart
  \/ Stop
SpecEmit == InitEmit /\ [][NextEmit]_vars

\* ------------------------------------------------ lifetime decay over ticks
\* the host engine under update(delta) with frame deltas of a second, half a
\* second and a millisecond; with the last, fadeRate * dt is below the
\* resolution of the stored lifetime, as it is in the Float32Array store for
\* products below 2^-25
DecayDeltas == {Fp(1, 1000), Fp(1, 2), One}
InitDecay == \E opt \in {OptFall, OptBounce} : Construct(opt, TRUE, "none")
NextDecay ==
  \/ InitCall
  \/ \E o \in Origins, count \in OverrideCounts, seed \in Seeds : Spawn(o, count, seed)
  \/ \E delta \in DecayDeltas : Update(delta)
SpecDecay == InitDecay /\ [][NextDecay]_vars

\* ----------------------------------------------------------------- claims
\* the row of slot i in the store s
Row(s, i) ==
  [pos |-> s.positions[i], vel |-> s.velocities[i], life |-> s.lifetimes[i],
   fade |-> s.fadeRates[i], size |-> s.particleSizes[i],
   rot |-> Opt(s.particleRotations, i),
   colorStart |-> Opt(s.particleColorStarts, i), colorEnd |-> Opt(s.particleColorEnds, i)]
\* the store and the uniforms as cpuUpdate saw them in the last update(delta)
TickUniforms == [pre.u EXCEPT !.deltaTime = u.deltaTime, !.turbulenceTime = u.turbulenceTime]
TickVelocity(i) == VelocityAfterForces(pre.cpu, TickUniforms, features, i)
TickPosition(i) == PositionAfterIntegration(pre.cpu, TickUniforms, curveTexture, features, i)
\* the last call was an update that ran (the engine was initialized)
Updated == lastOp.op = "update" /\ pre.initialized
\* slot i was live before the last update and crossed the collision plane in it
Crossed(i) == pre.cpu.lifetimes[i] > 0 /\ Collides(TickUniforms, features, TickPosition(i))

\* the set S is what the range [startIdx, endIdx) denotes on a ring of C slots;
\* a range with startIdx = endIdx is taken to denote the empty set or the
\* whole ring, whichever S is
RangeDenotes(S, startIdx, endIdx, C) ==
  \/ S = {i \in 0 .. (C - 1) : InSpawnRange(i, startIdx, endIdx)}
  \/ startIdx = endIdx /\ S = 0 .. (C - 1)

\* C1: spawn(x, y, z, count) on an initialized engine of capacity C with cursor
\* k claims exactly the count indices k, k+1, ... mod C - the range
\* [spawnIndexStart, spawnIndexEnd) handed to the spawn pass, read with
\* wrap-around - and leaves the cursor at (k + count) mod C, for every count >= 0.
C1_SpawnClaimsCountIndices ==
  (lastOp.op = "spawn" /\ pre.initialized) =>
    LET k == pre.nextIndex
        count == lastOp.arg
        C == normalizedProps.maxParticles
    IN /\ nextIndex = (k + count) % C
       /\ u.spawnIndexStart = k
       /\ RangeDenotes({(k + j) % C : j \in 0 .. (count - 1)},
                       u.spawnIndexStart, u.spawnIndexEnd, C)

\* C2: in every state reached from construction by init, spawn, update with
\* dt >= 0, clear and the other calls, every slot's lifetime is within [0, 1].
C2_LifetimeInUnitRange ==
  \A i \in Idx : cpu.lifetimes[i] >= 0 /\ cpu.lifetimes[i] <= One
\* an update has left one particle part-way through its life and another dead
C2_Witness ==
  /\ Updated
  /\ \E i \in Idx : cpu.lifetimes[i] > 0 /\ cpu.lifetimes[i] < One
  /\ \E i \in Idx : pre.cpu.lifetimes[i] > 0 /\ cpu.lifetimes[i] = 0

\* C3: while the engine is initialized, every slot whose lifetime is 0 has
\* position.y at the dead sentinel -1000, whichever way the particle died.
C3_DeadSentinel ==
  initialized => \A i \in Idx : cpu.lifetimes[i] = 0 => cpu.positions[i][2] = DeadY
\* a particle bounced on the plane and died of lifetime decay in the same tick
C3_Witness ==
  /\ Updated
  /\ \E i \in Idx :
       /\ Crossed(i)
       /\ ~CollisionDie(u, features)
       /\ cpu.velocities[i][2] > 0
       /\ cpu.lifetimes[i] = 0
       /\ cpu.positions[i][2] = DeadY

\* C4: a slot with lifetime <= 0 before an update keeps its position, velocity,
\* rotation, lifetime, fade rate and size through that update.
C4_DeadUnchangedByUpdate ==
  lastOp.op = "update" =>
    \A i \in Idx : pre.cpu.lifetimes[i] <= 0 => Row(cpu, i) = Row(pre.cpu, i)
\* an update with dt > 0 under gravity ran over a dead slot that still carries
\* the velocity it died with, next to a live one
C4_Witness ==
  /\ Updated
  /\ lastOp.arg > 0
  /\ \E i, j \in Idx :
       /\ pre.cpu.lifetimes[i] = 0
       /\ pre.cpu.velocities[i] # Zero3
       /\ pre.cpu.lifetimes[j] > 0
       /\ cpu.velocities[j] # pre.cpu.velocities[j]

\* C5: a live particle that is not killed by collision gets newLifetime =
\* lifetime - fadeRate * dt; when newLifetime <= 0 it is dead after the tick
\* (lifetime 0, position.y -1000), otherwise its lifetime is newLifetime.
C5_LifetimeDecay ==
  Updated =>
    \A i \in Idx :
      (pre.cpu.lifetimes[i] > 0 /\ ~(Crossed(i) /\ CollisionDie(u, features))) =>
        LET newLifetime == pre.cpu.lifetimes[i] - Mul(pre.cpu.fadeRates[i], lastOp.arg)
        IN IF newLifetime <= 0
           THEN cpu.lifetimes[i] = 0 /\ cpu.positions[i][2] = DeadY
           ELSE cpu.lifetimes[i] = newLifetime
\* fadeRate 1, lifetime 1, dt 1: dead after one update
C5_Witness ==
  /\ Updated
  /\ lastOp.arg = One
  /\ \E i \in Idx :
       /\ pre.cpu.lifetimes[i] = One
       /\ pre.cpu.fadeRates[i] = One
       /\ cpu.lifetimes[i] = 0
       /\ cpu.positions[i][2] = DeadY

\* C6: with die set, a live particle whose position.y after integration is
\* below planeY has, after that tick, lifetime 0 and position.y -1000, the
\* velocity and the x and z position computed in the tick, and the rotation it
\* had before the tick.
C6_CollisionDie ==
  Updated =>
    \A i \in Idx :
      (Crossed(i) /\ CollisionDie(u, features)) =>
        /\ cpu.lifetimes[i] = 0
        /\ cpu.positions[i] = <<TickPosition(i)[1], DeadY, TickPosition(i)[3]>>
        /\ cpu.velocities[i] = TickVelocity(i)
        /\ Opt(cpu.particleRotations, i) = Opt(pre.cpu.particleRotations, i)
\* a rotating particle moving sideways under gravity crossed the plane and was
\* killed with decay still to go (its lifetime would have stayed positive)
C6_Witness ==
  /\ Updated
  /\ lastOp.arg > 0
  /\ cpu.particleRotations # NullArray
  /\ u.rotationSpeedMinX > 0
  /\ \E i \in Idx :
       /\ Crossed(i)
       /\ CollisionDie(u, features)
       /\ pre.cpu.lifetimes[i] - Mul(pre.cpu.fadeRates[i], lastOp.arg) > 0
       /\ cpu.lifetimes[i] = 0
       /\ cpu.velocities[i] # pre.cpu.velocities[i]
       /\ cpu.positions[i][1] # pre.cpu.positions[i][1]

\* C7: with die not set, a live particle whose position.y after integration is
\* below planeY ends the tick with velocity.y = |velocity.y| * bounce, with
\* velocity.x and velocity.z multiplied by the collision friction, and with
\* position.y = planeY unless it also died of lifetime decay.
C7_CollisionBounce ==
  Updated =>
    \A i \in Idx :
      (Crossed(i) /\ ~CollisionDie(u, features)) =>
        LET v == TickVelocity(i)
        IN /\ cpu.velocities[i] =
                <<Mul(v[1], u.collisionFriction), Mul(Abs(v[2]), u.collisionBounce),
                  Mul(v[3], u.collisionFriction)>>
           /\ cpu.positions[i][1] = TickPosition(i)[1]
           /\ cpu.positions[i][3] = TickPosition(i)[3]
           /\ cpu.lifetimes[i] > 0 => cpu.positions[i][2] = u.collisionPlaneY
           /\ cpu.lifetimes[i] = 0 => cpu.positions[i][2] = DeadY
\* bounce 0.5 and a velocity.y of -4 before the collision give velocity.y 2
C7_Witness ==
  /\ Updated
  /\ u.collisionBounce = Fp(1, 2)
  /\ \E i \in Idx :
       /\ Crossed(i)
       /\ ~CollisionDie(u, features)
       /\ TickVelocity(i)[2] = -4 * One
       /\ TickVelocity(i)[1] # 0
       /\ cpu.velocities[i][2] = 2 * One
       /\ cpu.lifetimes[i] > 0
       /\ cpu.positions[i][2] = u.collisionPlaneY

\* the slots [k, k + count) mod C hold particles spawned at origin o
SpawnedAt(k, count, o) ==
  LET C == normalizedProps.maxParticles
  IN /\ nextIndex = (k + count) % C
     /\ u.spawnIndexStart = k
     /\ u.spawnIndexEnd = (k + count) % C
     /\ u.spawnPosition = o
     /\ \A j \in 0 .. (count - 1) : cpu.lifetimes[(k + j) % C] = One
\* nothing the spawn pass writes has changed
NoSpawn == cpu = pre.cpu /\ u = pre.u /\ nextIndex = pre.nextIndex

\* C8: autoEmit(dt) does nothing when isEmitting is false; with delay 0 it
\* spawns emitCount particles at the engine position on every call; otherwise
\* it adds dt to the accumulator and, when the accumulator >= delay, subtracts
\* delay from it (the overshoot is kept) and spawns emitCount particles once.
\* The spawn is the call spawn(position, emitCount): on an engine that is not
\* initialized that call writes nothing.
C8_AutoEmit ==
  lastOp.op = "autoEmit" =>
    LET dt == lastOp.arg
        delay == normalizedProps.delay
        SpawnedOnce ==
          IF pre.initialized
          THEN SpawnedAt(pre.nextIndex, normalizedProps.emitCount, position)
          ELSE NoSpawn
    IN IF ~pre.isEmitting
       THEN NoSpawn /\ emitAccumulator = pre.emitAccumulator
       ELSE IF delay = 0
       THEN SpawnedOnce /\ emitAccumulator = pre.emitAccumulator
       ELSE IF pre.emitAccumulator + dt >= delay
       THEN SpawnedOnce /\ emitAccumulator = pre.emitAccumulator + dt - delay
       ELSE NoSpawn /\ emitAccumulator = pre.emitAccumulator + dt
\* an emission on an initialized engine that overshot the delay: the
\* accumulator keeps the overshoot
C8_Witness ==
  /\ lastOp.op = "autoEmit"
  /\ lastOp.spawned
  /\ pre.isEmitting
  /\ normalizedProps.delay > 0
  /\ pre.emitAccumulator > 0
  /\ pre.emitAccumulator + lastOp.arg > normalizedProps.delay
  /\ emitAccumulator > 0
  /\ nextIndex # pre.nextIndex

\* C9: start() sets emitting and resets the accumulator to 0 from any state;
\* stop() only clears the emitting flag: the accumulator, the cursor, the
\* uniforms and the store are as before.
C9_StartStop ==
  /\ lastOp.op = "start" =>
       /\ isEmitting
       /\ emitAccumulator = 0
       /\ NoSpawn
       /\ initialized = pre.initialized
  /\ lastOp.op = "stop" =>
       /\ ~isEmitting
       /\ emitAccumulator = pre.emitAccumulator
       /\ NoSpawn
       /\ initialized = pre.initialized
\* start() called mid-cycle, with a non-zero accumulator, on a stopped engine
C9_Witness ==
  /\ lastOp.op = "start"
  /\ pre.emitAccumulator > 0
  /\ ~pre.isEmitting
  /\ emitAccumulator = 0

\* slot i of the store s is in the dead state of cpuInit
DeadState(s, i) ==
  Row(s, i) =
    [pos |-> <<0, DeadY, 0>>, vel |-> Zero3, life |-> 0, fade |-> 0, size |-> 0,
     rot |-> Zero3,
     colorStart |-> IF s.particleColorStarts = NullArray THEN Zero3 ELSE White3,
     colorEnd |-> IF s.particleColorEnds = NullArray THEN Zero3 ELSE White3]

\* C10, as claimed: every call of init() resets every slot 0 .. capacity-1 to
\* the dead state, whatever the state of the store before the call.
C10_InitResetsOnEveryCall ==
  lastOp.op = "init" => \A i \in Idx : DeadState(cpu, i)

\* C10, amended: init() on an engine that is not initialized resets every slot
\* 0 .. capacity-1 to the dead state, whatever the store held, and marks the
\* engine initialized; init() on an initialized engine returns without
\* touching the store.
C10_InitResetsWhenNotInitialized ==
  lastOp.op = "init" =>
    /\ initialized
    /\ IF pre.initialized
       THEN cpu = pre.cpu
       ELSE \A i \in Idx : DeadState(cpu, i)
\* init() after dispose() on a store with rotation and colour arrays that still
\* held a live particle
C10_Witness ==
  /\ lastOp.op = "init"
  /\ ~pre.initialized
  /\ cpu.particleRotations # NullArray
  /\ cpu.particleColorStarts # NullArray
  /\ \E i \in Idx : pre.cpu.lifetimes[i] > 0
  /\ \A i \in Idx : DeadState(cpu, i)

\* C11: after clear(), from any prior state (initialized or not, cursor
\* anywhere, particles live or dead), every slot is in the dead state of
\* cpuInit and nextIndex is 0, so a spawn of count particles made next on an
\* initialized engine is handed spawnIndexStart 0 and, for 1 <= count < C,
\* fills the slots 0 .. count-1.
C11_ClearResets ==
  lastOp.op = "clear" =>
    /\ \A i \in Idx : DeadState(cpu, i)
    /\ nextIndex = 0
    /\ initialized = pre.initialized
    /\ initialized =>
         \A count \in 1 .. (normalizedProps.maxParticles - 1), seed \in Seeds :
           LET r == SpawnEffect(0, One, 0, count, seed)
           IN /\ r.u.spawnIndexStart = 0
              /\ r.nextIndex = count
              /\ \A i \in Idx : (r.cpu.lifetimes[i] = One) = (i < count)
\* clear() on an initialized engine whose cursor had advanced and that held a
\* live particle
C11_Witness ==
  /\ lastOp.op = "clear"
  /\ initialized
  /\ pre.nextIndex > 0
  /\ \E i \in Idx : pre.cpu.lifetimes[i] > 0
  /\ nextIndex = 0
  /\ \A i \in Idx : DeadState(cpu, i)

\* C12: a spawn whose count is larger than the capacity C is accepted and wraps
\* the ring: every slot 0 .. C-1 is claimed and overwritten by that one call
\* (each holds a fresh particle of lifetime 1), and the cursor ends at
\* (k + count) mod C.
C12_SpawnBeyondCapacityFillsRing ==
  (lastOp.op = "spawn" /\ pre.initialized
     /\ lastOp.arg > normalizedProps.maxParticles) =>
    /\ nextIndex = (pre.nextIndex + lastOp.arg) % normalizedProps.maxParticles
    /\ \A i \in Idx : cpu.lifetimes[i] = One

\* the uniforms that hold configuration: all but the per-call spawn uniforms
\* and the per-tick time uniforms
ConfigUniforms ==
  DOMAIN BaseUniforms
    \ {"spawnPosition", "spawnIndexStart", "spawnIndexEnd", "spawnSeed", "deltaTime",
       "turbulenceTime"}

\* C13: spawn overrides are scoped to one call: after spawn(x, y, z, count,
\* overrides) has finished, by returning or by the spawn write throwing, every
\* configuration uniform has the value it had before the call.
C13_OverridesRestored ==
  lastOp.op = "spawn" => \A f \in ConfigUniforms : u[f] = pre.u[f]

\* C14: an engine built on a renderer without WebGPU runs on the
\* Host-Sequential backend for its whole life: the backend flag is what the
\* constructor chose, no call - made on the engine or issued by a wrapper's
\* frame loop - ever hands a compute node to renderer.computeAsync (on this
\* backend every compute node is null), and an update that runs moves the
\* particles through cpuUpdate.
C14_HostBackendNeverDispatches ==
  isWebGL =>
    /\ pre.isWebGL
    /\ computeCalls = {}
    /\ Updated =>
         cpu = cpuUpdate(pre.cpu, TickUniforms, curveTexture, normalizedProps.maxParticles,
                         features)
\* the same, for engines that no wrapper component drives
C14_EngineCallsNeverDispatch ==
  wrapper = "none" => C14_HostBackendNeverDispatches

\* the four curve-enabled flags of the uniforms uu
CurveFlags(uu) ==
  <<uu.fadeSizeCurveEnabled, uu.fadeOpacityCurveEnabled, uu.velocityCurveEnabled,
    uu.rotationSpeedCurveEnabled>>
\* the last step resumed an init() call that was suspended
InitResumed == lastOp.op \in {"initPassDone", "curveLoad", "trailImport"}

\* C15: after dispose() the engine is not initialized and has no trail object,
\* spawn() and update() on it are no-ops, and it stays so until init() is
\* called again: an init() call that was suspended at an await when dispose()
\* ran does not, when it resumes, make the engine initialized or attach a
\* trail object.
C15_DisposedStaysDisposed ==
  /\ lastOp.op = "dispose" => ~initialized /\ ~trailRenderObject
  /\ (lastOp.op \in {"spawn", "update"} /\ ~pre.initialized) => NoSpawn
  /\ (InitResumed /\ pre.initCall.disposed) => ~initialized /\ ~trailRenderObject

\* C16: a curve load that rejects during init() is not fatal: texture data and
\* the four curve-enabled flags are what they were before the load - the baked
\* or default curve and the flags of the constructor, for an engine whose
\* curve was not replaced since - and init() runs on, to initialized = true or
\* to the trail import.
C16_CurveLoadFailureKeepsCurve ==
  (lastOp.op = "curveLoad" /\ lastOp.arg = 0) =>
    /\ curveTexture = pre.curveTexture
    /\ CurveFlags(u) = CurveFlags(pre.u)
    /\ u = pre.u
    /\ IF features.trails /\ ~isWebGL
       THEN initCall.pc = "awaitTrail" /\ initialized = pre.initialized
       ELSE initialized /\ initCall.pc = "idle"
\* the load rejected on an engine built with baked velocity and rotation-speed
\* curves: init() completed, the baked texture and its flags are in place
C16_Witness ==
  /\ lastOp.op = "curveLoad"
  /\ lastOp.arg = 0
  /\ initialized
  /\ curveTexture = BakedCurve
  /\ CurveFlags(u) = <<0, 0, One, One>>

\* the four channels of texel k of the texture tex
Texel(tex, k) ==
  [r |-> At(tex.data, 4 * k), g |-> At(tex.data, 4 * k + 1),
   b |-> At(tex.data, 4 * k + 2), a |-> At(tex.data, 4 * k + 3)]
\* a + (b - a) * f, computed as the sampler does: a * (1 - f) + b * f
Mix(a, b, f) == Mul(a, One - f) + Mul(b, f)

\* C17: sampleCurve clamps and never extrapolates or wraps: for every progress,
\* below 0 and above 1 included, and every width >= 1, both texel indices read
\* are within 0 .. width-1; progress <= 0 returns the first texel's four
\* channels and progress >= 1 the last texel's; for a progress in between, with
\* k the texel at or below progress * (width-1), each channel is the linear
\* interpolation of texel k and texel min(k+1, width-1).
C17_SampleCurveClamps ==
  lastOp.op = "sampleCurve" =>
    LET width == curveTexture.width
        progress == lastOp.arg
        x == TexelOf(width, progress)
    IN /\ x.idx0 \in 0 .. (width - 1)
       /\ x.idx1 \in 0 .. (width - 1)
       /\ progress <= 0 => retval = Texel(curveTexture, 0)
       /\ progress >= One => retval = Texel(curveTexture, width - 1)
       /\ (progress > 0 /\ progress < One) =>
            \E k \in 0 .. (width - 1) :
              LET pos == progress * (width - 1)
                  f == pos - k * Scale
                  lo == Texel(curveTexture, k)
                  hi == Texel(curveTexture, Min2(k + 1, width - 1))
              IN /\ f >= 0 /\ f < One
                 /\ retval = [r |-> Mix(lo.r, hi.r, f), g |-> Mix(lo.g, hi.g, f),
                              b |-> Mix(lo.b, hi.b, f), a |-> Mix(lo.a, hi.a, f)]
\* a progress above 1 sampled on a texture of three texels whose first and last
\* texel differ: the last texel comes back
C17_Witness ==
  /\ lastOp.op = "sampleCurve"
  /\ lastOp.arg > One
  /\ curveTexture.width = 3
  /\ Texel(curveTexture, 0) # Texel(curveTexture, 2)
  /\ retval = Texel(curveTexture, 2)

\* the vector from the particle to the attractor of the last attractor pass
ToAttractor ==
  <<retval.att.pos[1] - retval.p[1], retval.att.pos[2] - retval.p[2],
    retval.att.pos[3] - retval.p[3]>>
Dot3(a, b) == a[1] * b[1] + a[2] * b[2] + a[3] * b[3]
Norm1(a) == Abs(a[1]) + Abs(a[2]) + Abs(a[3])
\* what the three truncations of one force component (the division by the
\* length, the product with the strength, the product with the falloff) can
\* lose, in units of the fixed point
Truncation(att) == Abs(att.strength) \div Scale + 3
\* a and b are parallel up to an error of at most tol in each component of a:
\* every component of their (unscaled) cross product is within tol * |b|
ParallelWithin(a, b, tol) ==
  /\ Abs(a[2] * b[3] - a[3] * b[2]) <= tol * Norm1(b)
  /\ Abs(a[3] * b[1] - a[1] * b[3]) <= tol * Norm1(b)
  /\ Abs(a[1] * b[2] - a[2] * b[1]) <= tol * Norm1(b)

\* C18: for every particle position, attractor position and axis, the force of
\* a vortex attractor is orthogonal to the vector from the particle to the
\* attractor (their dot product is 0 up to the truncation of the force's
\* components), and the force of a point attractor is parallel to that vector:
\* no component points the other way when strength > 0 (none the same way when
\* strength < 0).
C18_VortexOrthogonalPointParallel ==
  lastOp.op = "attractorForce" =>
    LET att == retval.att
        f == retval.force
        to == ToAttractor
    IN IF att.type < Fp(1, 2)
       THEN /\ ParallelWithin(f, to, Truncation(att))
            /\ \A i \in 1 .. 3 :
                 IF att.strength > 0 THEN f[i] * to[i] >= 0 ELSE f[i] * to[i] <= 0
       ELSE Abs(Dot3(f, to)) <= Truncation(att) * Norm1(to)
\* a vortex attractor pushed a particle that is off its axis, and a point
\* attractor of positive strength pulled one
C18_Witness ==
  /\ lastOp.op = "attractorForce"
  /\ retval.force # Zero3
  /\ Norm1(ToAttractor) >= One
  /\ \/ ~(retval.att.type < Fp(1, 2))
     \/ retval.att.strength > 0 /\ Dot3(retval.force, ToAttractor) > 0

\* C19: degenerate inputs never divide by zero in the attractor step: for
\* every particle position, exactly at the attractor and exactly on a vortex
\* attractor's axis included, and every radius and strength, the distance
\* divided by is >= 0.01, the tangent length divided by is >= 0.001, the linear
\* falloff divides by a radius > 0.001 and the inverse-square falloff by a
\* value >= 1; the force is finite, no component exceeding |strength|.
C19_AttractorStepFinite ==
  lastOp.op = "attractorForce" =>
    LET att == retval.att
        d == retval.divisors
        f == retval.force
    IN IF d.skipped THEN f = Zero3
       ELSE /\ d.safeDist >= Fp(1, 100)
            /\ IF d.linear THEN d.falloffDivisor > Fp(1, 1000) ELSE d.falloffDivisor >= One
            /\ d.vortex => d.tangentLen >= Fp(1, 1000)
            /\ \A i \in 1 .. 3 : IsFinite(f[i]) /\ Abs(f[i]) <= Abs(att.strength)
\* a particle exactly at the position of an attractor that is not skipped, and
\* a particle exactly on the axis of a vortex attractor
C19_Witness ==
  /\ lastOp.op = "attractorForce"
  /\ ~retval.divisors.skipped
  /\ \/ ToAttractor = Zero3
     \/ /\ retval.divisors.vortex
        /\ ToAttractor # Zero3
        /\ Cross3(retval.att.axis, ToAttractor) = Zero3

\* the tolerance 1e-4 of the backend comparison; it is below the unit of the
\* fixed point, so two values within it are equal
Tolerance == Fp(1, 10000)
Within(a, b) == \A k \in 1 .. 3 : Abs(a[k] - b[k]) <= Tolerance
Minus(a, b) == <<a[1] - b[1], a[2] - b[2], a[3] - b[3]>>

RECURSIVE CountOf(_, _)
CountOf(node, passes) ==
  IF passes = <<>> THEN 0
  ELSE (IF Head(passes) = node THEN 1 ELSE 0) + CountOf(node, Tail(passes))

\* C21: on the Device-Parallel backend the passes of a frame loop are strictly
\* ordered across ticks: the update pass of a frame has completed before the
\* update pass of the next frame is issued, so that at most one update pass is
\* ever in flight, and no spawn or update pass is issued while the init pass of
\* init() is in flight.
C21_PassesOrderedAcrossTicks ==
  /\ CountOf("computeUpdate", pending) <= 1
  /\ initCall.pc = "awaitInitPass" => pending = <<>>

\* C22: the step order inside one cpuUpdate tick, for every particle live
\* before it: gravity, then turbulence, then the attractors change the same
\* velocity; the position is integrated once, as position + velocity * dt *
\* speedScale, with speedScale taken at progress = 1 - lifetime of the start of
\* the tick; the stored velocity is the velocity after the forces, not scaled
\* by speedScale; the collision test reads the integrated position; the
\* lifetime decay runs last and pins y to the sentinel of a particle it kills,
\* also of one that bounced in the same tick.
C22_StepOrder ==
  Updated =>
    \A i \in Idx :
      pre.cpu.lifetimes[i] > 0 =>
        LET dt == lastOp.arg
            p0 == pre.cpu.positions[i]
            life0 == pre.cpu.lifetimes[i]
            vGravity == GravityStep(TickUniforms, pre.cpu.velocities[i],
                                    pre.cpu.particleSizes[i], dt)
            vTurbulence == TurbulenceStep(TickUniforms, features, p0, vGravity, dt)
            vForces == AttractorStep(ReadAttractors(TickUniforms, features), p0,
                                     vTurbulence, dt)
            speedScale == SpeedScale(TickUniforms, curveTexture, One - life0)
            integrated ==
              <<p0[1] + Mul(Mul(vForces[1], dt), speedScale),
                p0[2] + Mul(Mul(vForces[2], dt), speedScale),
                p0[3] + Mul(Mul(vForces[3], dt), speedScale)>>
            hit == Collides(TickUniforms, features, integrated)
            decayed == life0 - Mul(pre.cpu.fadeRates[i], dt)
        IN /\ cpu.positions[i][1] = integrated[1]
           /\ cpu.positions[i][3] = integrated[3]
           /\ ~hit => cpu.velocities[i] = vForces
           /\ (~hit /\ cpu.lifetimes[i] > 0) => cpu.positions[i] = integrated
           /\ (hit /\ cpu.lifetimes[i] > 0) => cpu.positions[i][2] = u.collisionPlaneY
           /\ (hit /\ CollisionDie(u, features)) =>
                cpu.lifetimes[i] = 0 /\ cpu.velocities[i] = vForces
           /\ (~(hit /\ CollisionDie(u, features)) /\ decayed <= 0) =>
                cpu.lifetimes[i] = 0 /\ cpu.positions[i][2] = DeadY
           /\ (~(hit /\ CollisionDie(u, features)) /\ decayed > 0) =>
                cpu.lifetimes[i] = decayed
\* a tick with forces on a live particle whose speed scale is not 1: the
\* position moved by the scaled displacement, the stored velocity is unscaled
C22_Witness ==
  /\ Updated
  /\ lastOp.arg > 0
  /\ \E i \in Idx :
       /\ pre.cpu.lifetimes[i] > 0
       /\ cpu.lifetimes[i] > 0
       /\ SpeedScale(TickUniforms, curveTexture, One - pre.cpu.lifetimes[i]) # One
       /\ cpu.velocities[i] # pre.cpu.velocities[i]
       /\ cpu.positions[i] # pre.cpu.positions[i]
       /\ cpu.velocities[i] = TickVelocity(i)

\* C24: spawn() on an engine that is not initialized, before init() has
\* completed or after dispose(), changes nothing: the cursor, the uniforms
\* (spawn uniforms and those overrides would replace), the particle store and
\* the set of passes handed to the renderer stay as they were.
C24_SpawnNotInitializedNoOp ==
  [][(lastOp'.op = "spawn" /\ ~initialized) =>
       UNCHANGED <<cpu, u, nextIndex, computeCalls, initialized, emitAccumulator>>]_vars
\* spawn() was called after dispose(), on an engine that had spawned before:
\* the store still holds the live particle, the cursor is at 0
C24_Witness ==
  /\ lastOp.op = "spawn"
  /\ ~pre.initialized
  /\ pre.initCall.pc = "idle"
  /\ \E i \in Idx : cpu.lifetimes[i] > 0

\* C25: the spawn cursor is a slot index in every state reached by init,
\* spawn with any count >= 0, autoEmit, clear and dispose:
\* 0 <= nextIndex < maxParticles.
C25_CursorInRange ==
  /\ 0 <= nextIndex
  /\ nextIndex < normalizedProps.maxParticles
\* a spawn whose count carried the cursor past the last slot: it wrapped
C25_Witness ==
  /\ lastOp.op = "spawn"
  /\ lastOp.spawned
  /\ pre.nextIndex > 0
  /\ pre.nextIndex + lastOp.arg >= normalizedProps.maxParticles
  /\ nextIndex < pre.nextIndex

\* the collision feature is compiled in and switched on
CollisionOn == features.collision /\ u.collisionEnabled > Fp(1, 2)
\* C27: with the collision feature compiled in and switched on, after every
\* cpuUpdate no live particle is below the collision plane: every slot with
\* lifetime > 0 has position.y >= collisionPlaneY.
C27_LiveParticlesAbovePlane ==
  (Updated /\ CollisionOn) =>
    \A i \in Idx : cpu.lifetimes[i] > 0 => cpu.positions[i][2] >= u.collisionPlaneY
\* a live particle was integrated to below the plane in a bounce configuration
\* and is still live after the tick, lifted back to the plane
C27_Witness ==
  /\ Updated
  /\ CollisionOn
  /\ ~CollisionDie(u, features)
  /\ \E i \in Idx :
       /\ pre.cpu.lifetimes[i] > 0
       /\ TickPosition(i)[2] < u.collisionPlaneY
       /\ cpu.lifetimes[i] > 0
       /\ cpu.positions[i][2] > TickPosition(i)[2]

\* slot i is in the range the last spawn claimed
Claimed(i) ==
  /\ lastOp.spawned
  /\ InSpawnRange(i, u.spawnIndexStart, u.spawnIndexEnd)
\* a slot that was dead and is live was claimed by a spawn
DeadStaysDead ==
  \A i \in Idx :
    (pre.cpu.lifetimes[i] <= 0 /\ cpu.lifetimes[i] > 0) => Claimed(i)
C28_EmissionRate ==
  normalizedProps.delay > 0 =>
    LET delay == normalizedProps.delay
        C == normalizedProps.maxParticles
    IN /\ lastOp.op = "autoEmit" =>
            nextIndex \in {pre.nextIndex, (pre.nextIndex + normalizedProps.emitCount) % C}
       /\ tally.bounded =>
            /\ 0 <= emitAccumulator
            /\ emitAccumulator < delay
            /\ tally.spawns = tally.sum \div delay
\* three calls with delay 1 whose second overshot the delay by a half: two
\* spawns after a sum of 2
C28_Witness ==
  /\ normalizedProps.delay = One
  /\ lastOp.op = "autoEmit"
  /\ lastOp.arg = Fp(1, 2)
  /\ tally.bounded
  /\ tally.sum = 2 * One
  /\ tally.spawns = 2
  /\ emitAccumulator = 0

\* the keys whose presence in newValues re-creates the engine
RecreatingKeys == STRUCTURAL_KEYS \cup {"geometryType", "geometryArgs"}
\* no engine was made, and every engine's store, cursor and flags are as before
StoresKept ==
  /\ Len(vfx'.engines) = Len(vfx.engines)
  /\ \A e \in 1 .. Len(vfx.engines) :
       /\ vfx'.engines[e].nextIndex = vfx.engines[e].nextIndex
       /\ vfx'.engines[e].spawns = vfx.engines[e].spawns
       /\ vfx'.engines[e].initialized = vfx.engines[e].initialized
       /\ vfx'.engines[e].disposed = vfx.engines[e].disposed
\* what a setProps(newValues) step does
SetPropsStep ==
  LET newValues == lastOp'.arg
      current == IF vfx.system # 0 THEN vfx.engines[vfx.system].features.turbulence ELSE FALSE
      flips == "turbulence" \in DOMAIN newValues /\ newValues.turbulence # current
      recreates == RecreatingKeys \cap DOMAIN newValues # {} \/ flips
      started == Len(vfx'.engines) = Len(vfx.engines) + 1 \/ vfx'.imports = vfx.imports + 1
  IN /\ started <=> recreates
     /\ ~recreates =>
          /\ StoresKept
          /\ vfx'.system = vfx.system
          /\ vfx'.emitAccumulator = vfx.emitAccumulator
          /\ vfx'.group = vfx.group
          /\ ("size" \in DOMAIN newValues /\ vfx.system # 0) =>
               vfx'.engines[vfx.system].sizeMin = newValues.size
\* what the completion of a re-creation does
RecreatedStep ==
  LET s == vfx'.system
  IN /\ s = lastOp'.arg
     /\ s # vfx.system
     /\ vfx'.engines[s].initialized
     /\ ~vfx'.engines[s].disposed
     /\ vfx'.engines[s].nextIndex = 0
     /\ vfx'.engines[s].spawns = 0
     /\ vfx'.emitAccumulator = 0
C29_EmittingFlagsAgree ==
  /\ vfx.system # 0 => vfx.emitting = vfx.engines[vfx.system].isEmitting
  /\ (~vfx.options.autoStart /\ ~vfx.started) =>
       \A e \in 1 .. Len(vfx.engines) : vfx.engines[e].spawns = 0

\* C30: after init() called at most once and any setProps calls, once no
\* re-creation is pending, the group holds exactly the render object of
\* _system and every other engine that was created is disposed.
C30_OneRenderObject ==
  (vfx.awaited = {} /\ vfx.imports = 0 /\ vfx.system # 0 /\ vfx.inits <= 1) =>
    /\ vfx.group = {vfx.system}
    /\ \A e \in 1 .. Len(vfx.engines) : e # vfx.system => vfx.engines[e].disposed

=============================================================================
